---- MODULE Spec2Model ----
(***************************************************************************)
(* Model of the DomainChecker drop-domain pipeline: date/status utilities, *)
(* quality scorer, availability validators, ingestion orchestrators and    *)
(* the store they write to.                                                *)
(*                                                                         *)
(* Time.  An instant is an integer number of hours since the model epoch   *)
(* (a JS Date's getTime() in units of one hour).  A calendar date          *)
(* "YYYY-MM-DD" is the integer number of its UTC day, so that              *)
(* new Date("YYYY-MM-DD") is the instant 24 * day (a date-only ISO string  *)
(* parses as UTC midnight) and toISOString().split('T')[0] is              *)
(* instant \div 24.                                                        *)
(***************************************************************************)
EXTENDS Integers, Sequences, FiniteSets, TLC

VARIABLES
    now,        \* Date.now(): the current instant, in hours
    zone,       \* the process's local timezone (TZ)
    cfg,        \* the configuration read from the environment variables
    calc,       \* the last call of a date/status utility: its inputs and outputs
    probe,      \* the last call of an availability validator: lookups and verdict
    feed,       \* the rows of the upstream feed file
    world,      \* per domain, what DNS, the search page and WHOIS answer
    store,      \* the domains table: its rows and the next serial id
    pc,         \* where the ingestion process is: "idle", "filtering", "saving", "route"
    script,     \* the ingestion script that is running
    candidates, \* the candidates the running script fetched
    index,      \* the loop index over the candidates
    accepted,   \* scoreAndFilterDomains: the accepted candidates, with their score
    rejected,   \* scoreAndFilterDomains: the lowScore and stillRegistered counts
    consecutiveWhoisFailures,
    saveQueue,  \* main: the accepted candidates still to upsert, best score first
    slept,      \* how many cooldown and request-delay sleeps the run has made
    journal,    \* per processed candidate of the run: its score and its verdict
    written,    \* the upserts the store accepted in the run: row and instant
    storeError, \* whether the store has refused an upsert
    history,    \* per completed run: the script, its instant, the store it left
    runsLeft,   \* how many more runs may start
    ticksLeft,  \* how many more hours the clock may advance
    favorites,  \* the favorites table: its rows and the next serial id
    requests,   \* the favourite-toggle requests the web app is serving
    priceCache, \* lib/domain-prices.ts: the in-memory Map of cached prices
    responses   \* the responses the web app has returned, oldest first

dateVars == <<calc>>
probeVars == <<probe>>
runVars == <<pc, script, candidates, index, accepted, rejected,
             consecutiveWhoisFailures, saveQueue, slept, journal>>
storeVars == <<store, written, storeError, history>>
envVars == <<zone, cfg, feed, world>>
ingestVars == <<runVars, storeVars, runsLeft, ticksLeft>>
webVars == <<favorites, requests, priceCache, responses>>

vars == <<now, envVars, dateVars, probeVars, ingestVars, webVars>>

(***************************************************************************)
(* Bounds of the model.                                                    *)
(***************************************************************************)
MaxDayRange == 3
MaxRetryAttempts == 2
MaxCooldownAfter == 2
MaxFeedLen == 2
MaxBatch == 5
MaxTicks == 1

(***************************************************************************)
(* JS Date.                                                                *)
(***************************************************************************)

\* Math.floor(x / 24), Math.ceil(x / 24), Math.round(x / 24) for an integer x
FloorDays(x) == x \div 24
CeilDays(x) == -((-x) \div 24)
RoundDays(x) == (2 * x + 24) \div 48

\* new Date("YYYY-MM-DD"): a date-only string is parsed as UTC midnight
ParseIsoDate(day) == 24 * day

\* date.toISOString().split('T')[0]: the UTC calendar date of an instant
ToIsoDate(t) == t \div 24

\* The timezones a process can run in.  A zone has a standard offset and a
\* daylight-saving offset (hours east of UTC); daylight saving is in force on
\* the local days dstFrom .. dstTo - 1 of the model's year (day 0 is 1 January).
Zones ==
    { [name |-> "UTC",              std |-> 0,  dst |-> 0,  dstFrom |-> 0,  dstTo |-> 0],
      [name |-> "Etc/GMT+8",        std |-> -8, dst |-> -8, dstFrom |-> 0,  dstTo |-> 0],
      [name |-> "Asia/Tokyo",       std |-> 9,  dst |-> 9,  dstFrom |-> 0,  dstTo |-> 0],
      [name |-> "Europe/Stockholm", std |-> 1,  dst |-> 2,  dstFrom |-> 90, dstTo |-> 300] }

UtcZone == CHOOSE z \in Zones : z.name = "UTC"
StockholmZone == CHOOSE z \in Zones : z.name = "Europe/Stockholm"

\* the offset in force on a local wall-clock time w (hours)
OffsetAtWall(z, w) ==
    IF z.dstFrom <= (w \div 24) /\ (w \div 24) < z.dstTo THEN z.dst ELSE z.std

\* the offset in force at an instant t
OffsetAtInstant(z, t) ==
    IF OffsetAtWall(z, t + z.dst) = z.dst THEN z.dst ELSE z.std

\* d.setDate(d.getDate() + n): the local calendar date moves by n days and the
\* local time of day is kept; the result is the instant of that local time
AddLocalDays(z, t, n) ==
    LET wall == t + OffsetAtInstant(z, t) + 24 * n
    IN  wall - OffsetAtWall(z, wall)

\* toUtcMidnight(dateInput): Date.UTC(y, m, d) of the UTC date of the instant
toUtcMidnight(t) == 24 * (t \div 24)

(***************************************************************************)
(* Strings.  A string is the sequence of its characters.                   *)
(***************************************************************************)

Max(a, b) == IF a >= b THEN a ELSE b
Min(a, b) == IF a <= b THEN a ELSE b

LowerLetters == <<"a", "b", "c", "d", "e", "f", "g", "h", "i", "j", "k", "l", "m", "n", "o", "p", "q", "r", "s", "t", "u", "v", "w", "x", "y", "z">>
UpperLetters == <<"A", "B", "C", "D", "E", "F", "G", "H", "I", "J", "K", "L", "M", "N", "O", "P", "Q", "R", "S", "T", "U", "V", "W", "X", "Y", "Z">>

Letters == { LowerLetters[i] : i \in 1 .. Len(LowerLetters) }
Vowels == {"a", "e", "i", "o", "u"}
Consonants == Letters \ Vowels
RareLetters == {"x", "q", "z"}
Digits == {"0", "1", "2", "3", "4", "5", "6", "7", "8", "9"}

\* String.prototype.toLowerCase
ToLowerChar(c) ==
    IF \E i \in 1 .. Len(UpperLetters) : UpperLetters[i] = c
    THEN LowerLetters[CHOOSE i \in 1 .. Len(UpperLetters) : UpperLetters[i] = c]
    ELSE c

ToLowerCase(s) == [i \in 1 .. Len(s) |-> ToLowerChar(s[i])]

\* String.prototype.includes / startsWith / endsWith
Includes(s, w) ==
    \E i \in 0 .. (Len(s) - Len(w)) : SubSeq(s, i + 1, i + Len(w)) = w

StartsWith(s, w) == Len(w) <= Len(s) /\ SubSeq(s, 1, Len(w)) = w

EndsWith(s, w) == Len(w) <= Len(s) /\ SubSeq(s, Len(s) - Len(w) + 1, Len(s)) = w

\* the positions of the dots of s, and s.split('.')[k] (k counted from 0;
\* <<>> stands for both the empty string and undefined, which are both falsy)
DotPositions(s) == { i \in 1 .. Len(s) : s[i] = "." }

SplitDot(s, k) ==
    LET dots == DotPositions(s)
        \* the position of the k-th dot, 0 for k = 0, Len(s) + 1 past the last
        Nth(n) == IF n = 0 THEN 0
                  ELSE IF n > Cardinality(dots) THEN Len(s) + 1
                  ELSE CHOOSE i \in dots : Cardinality({j \in dots : j <= i}) = n
    IN  IF k > Cardinality(dots) THEN <<>>
        ELSE SubSeq(s, Nth(k) + 1, Nth(k + 1) - 1)

\* s.split('.').pop(): the part after the last dot
LastLabel(s) == SplitDot(s, Cardinality(DotPositions(s)))

\* s.replace(/\./g, '-')
DotsToHyphens(s) == [i \in 1 .. Len(s) |-> IF s[i] = "." THEN "-" ELSE s[i]]

(***************************************************************************)
(* Quality scorer (calculateDomainScore of the scored ingestion scripts).  *)
(***************************************************************************)

MIN_SCORE == 30

TRENDING_KEYWORDS ==
    << [word |-> <<"a", "i">>, points |-> 25],
       [word |-> <<"q", "u", "a", "n", "t", "u", "m">>, points |-> 24],
       [word |-> <<"n", "e", "u", "r", "a", "l">>, points |-> 23],
       [word |-> <<"l", "l", "m">>, points |-> 22],
       [word |-> <<"a", "g", "e", "n", "t">>, points |-> 21],
       [word |-> <<"a", "u", "t", "o", "n", "o", "m", "o", "u", "s">>, points |-> 20],
       [word |-> <<"d", "e", "f", "i">>, points |-> 22],
       [word |-> <<"w", "e", "b", "3">>, points |-> 21],
       [word |-> <<"b", "l", "o", "c", "k", "c", "h", "a", "i", "n">>, points |-> 19],
       [word |-> <<"n", "f", "t">>, points |-> 18],
       [word |-> <<"t", "o", "k", "e", "n">>, points |-> 17],
       [word |-> <<"c", "l", "i", "m", "a", "t", "e">>, points |-> 23],
       [word |-> <<"c", "a", "r", "b", "o", "n">>, points |-> 21],
       [word |-> <<"r", "e", "n", "e", "w", "a", "b", "l", "e">>, points |-> 20],
       [word |-> <<"s", "o", "l", "a", "r">>, points |-> 19],
       [word |-> <<"s", "u", "s", "t", "a", "i", "n", "a", "b", "l", "e">>, points |-> 18],
       [word |-> <<"l", "o", "n", "g", "e", "v", "i", "t", "y">>, points |-> 24],
       [word |-> <<"b", "i", "o", "h", "a", "c", "k">>, points |-> 22],
       [word |-> <<"w", "e", "l", "l", "n", "e", "s", "s">>, points |-> 20],
       [word |-> <<"m", "e", "n", "t", "a", "l">>, points |-> 19],
       [word |-> <<"t", "h", "e", "r", "a", "p", "y">>, points |-> 18],
       [word |-> <<"l", "a", "b", "s">>, points |-> 19],
       [word |-> <<"h", "u", "b">>, points |-> 17],
       [word |-> <<"p", "r", "o">>, points |-> 18],
       [word |-> <<"s", "t", "u", "d", "i", "o">>, points |-> 16],
       [word |-> <<"a", "c", "a", "d", "e", "m", "y">>, points |-> 15] >>

\* gibberishPatterns, tested on the lowercased name
\* /^[bcdfghjklmnpqrstvwxyz]{5,}/i
LeadingConsonants(name) ==
    Len(name) >= 5 /\ \A i \in 1 .. 5 : name[i] \in Consonants

\* /[xqz]{2,}/i
RepeatedRareLetters(name) ==
    \E i \in 1 .. (Len(name) - 1) : name[i] \in RareLetters /\ name[i + 1] \in RareLetters

\* /^\d+[a-z]+$/i
DigitsThenLetters(name) ==
    \E k \in 1 .. (Len(name) - 1) :
        /\ \A i \in 1 .. k : name[i] \in Digits
        /\ \A i \in (k + 1) .. Len(name) : name[i] \in Letters

\* /^[a-z]+\d+$/i
LettersThenDigits(name) ==
    \E k \in 1 .. (Len(name) - 1) :
        /\ \A i \in 1 .. k : name[i] \in Letters
        /\ \A i \in (k + 1) .. Len(name) : name[i] \in Digits

IsGibberish(name) ==
    \/ LeadingConsonants(name)
    \/ RepeatedRareLetters(name)
    \/ DigitsThenLetters(name)
    \/ LettersThenDigits(name)

\* 1. name quality: length bucket, vowel ratio in [0.25, 0.6], digits, hyphens
LengthPoints(length) ==
    IF length >= 2 /\ length <= 8 THEN 18
    ELSE IF length >= 9 /\ length <= 12 THEN 12
    ELSE IF length >= 13 /\ length <= 16 THEN 6
    ELSE IF length >= 17 THEN -10
    ELSE 0

VowelCount(name) == Cardinality({ i \in 1 .. Len(name) : name[i] \in Vowels })

Pronounceable(name) ==
    /\ Len(name) > 0
    /\ 4 * VowelCount(name) >= Len(name)
    /\ 5 * VowelCount(name) <= 3 * Len(name)

HasDigit(name) == \E i \in 1 .. Len(name) : name[i] \in Digits
HasHyphen(name) == \E i \in 1 .. Len(name) : name[i] = "-"

scoreNameQuality(name) ==
    Max(0, Min(30,
        LengthPoints(Len(name))
        + (IF Pronounceable(name) THEN 10 ELSE 0)
        + (IF ~HasDigit(name) THEN 5 ELSE -5)
        + (IF ~HasHyphen(name) THEN 5 ELSE -5)))

\* 2. trending words: the points of every keyword the name includes, capped
RECURSIVE TrendingSum(_, _)
TrendingSum(name, k) ==
    IF k = 0 THEN 0
    ELSE TrendingSum(name, k - 1)
         + (IF Includes(name, TRENDING_KEYWORDS[k].word)
            THEN TRENDING_KEYWORDS[k].points ELSE 0)

scoreTrendingWords(name) == Min(25, TrendingSum(name, Len(TRENDING_KEYWORDS)))

\* one "Trending" badge per included keyword worth 20 points or more
RECURSIVE TrendingBadges(_, _)
TrendingBadges(name, k) ==
    IF k = 0 THEN <<>>
    ELSE TrendingBadges(name, k - 1)
         \o (IF Includes(name, TRENDING_KEYWORDS[k].word) /\ TRENDING_KEYWORDS[k].points >= 20
             THEN <<"Trending">> ELSE <<>>)

\* 3. historical value: short name on com/io/ai, valuable endings
ValuableEnding(name) ==
    \/ EndsWith(name, <<"a", "i">>)
    \/ EndsWith(name, <<"l", "a", "b", "s">>)
    \/ EndsWith(name, <<"h", "u", "b">>)
    \/ EndsWith(name, <<"p", "r", "o">>)

scoreHistoricalValue(name, tld) ==
    Min(25,
        (IF Len(name) <= 5 /\ tld \in {<<"c", "o", "m">>, <<"i", "o">>, <<"a", "i">>}
         THEN 15 ELSE 0)
        + (IF ValuableEnding(name) THEN 10 ELSE 0))

\* 4. technical metrics: TLD tier, common-word bonus, clean characters, length
TldPoints(tld) ==
    IF tld = <<"c", "o", "m">> THEN 10
    ELSE IF tld = <<"i", "o">> THEN 8
    ELSE IF tld = <<"a", "i">> THEN 9
    ELSE IF tld = <<"a", "p", "p">> THEN 7
    ELSE IF tld = <<"d", "e", "v">> THEN 7
    ELSE IF tld = <<"c", "o">> THEN 6
    ELSE IF tld = <<"n", "e", "t">> THEN 5
    ELSE IF tld = <<"o", "r", "g">> THEN 5
    ELSE 3

CommonWords == {<<"g", "e", "t">>, <<"m", "y">>, <<"g", "o">>, <<"u", "s", "e">>, <<"f", "i", "n", "d">>, <<"m", "a", "k", "e">>, <<"b", "u", "i", "l", "d">>}

HasCommonWord(name) == \E w \in CommonWords : StartsWith(name, w) \/ EndsWith(name, w)

OnlyLowerLetters(name) == \A i \in 1 .. Len(name) : name[i] \in Letters

LengthPenalty(length) == IF length >= 17 THEN 12 ELSE IF length >= 13 THEN 5 ELSE 0

scoreTechnicalMetrics(name, tld) ==
    Max(-12, Min(20,
        TldPoints(tld)
        + (IF HasCommonWord(name) THEN 5 ELSE 0)
        + (IF OnlyLowerLetters(name) THEN 5 ELSE 0)
        - LengthPenalty(Len(name))))

Reasoning(total) ==
    IF total >= 80 THEN "Exceptional domain"
    ELSE IF total >= 60 THEN "Strong domain"
    ELSE IF total >= 40 THEN "Decent domain"
    ELSE IF total >= 20 THEN "Average domain"
    ELSE "Low quality domain"

ZeroScore ==
    [ nameQuality |-> 0, trendingWords |-> 0, historicalValue |-> 0,
      technicalMetrics |-> 0, total |-> 0, badges |-> <<>>,
      reasoning |-> "Gibberish pattern detected" ]

calculateDomainScore(domainName) ==
    LET name == ToLowerCase(SplitDot(domainName, 0))
        tld == IF SplitDot(domainName, 1) = <<>> THEN <<"c", "o", "m">> ELSE SplitDot(domainName, 1)
        nq == scoreNameQuality(name)
        tw == scoreTrendingWords(name)
        hv == scoreHistoricalValue(name, tld)
        tm == scoreTechnicalMetrics(name, tld)
        total == Max(0, Min(100, nq + tw + hv + tm))
    IN  IF IsGibberish(name) THEN ZeroScore
        ELSE [ nameQuality |-> nq, trendingWords |-> tw, historicalValue |-> hv,
               technicalMetrics |-> tm, total |-> total,
               badges |-> TrendingBadges(name, Len(TRENDING_KEYWORDS))
                          \o (IF nq >= 25 THEN <<"Premium">> ELSE <<>>)
                          \o (IF hv >= 20 THEN <<"High Value">> ELSE <<>>)
                          \o (IF Len(name) <= 5 THEN <<"Short">> ELSE <<>>),
               reasoning |-> Reasoning(total) ]

(***************************************************************************)
(* Quality scorer of lib/domain-scoring-engine.ts.                         *)
(***************************************************************************)

TRENDING_KEYWORDS_2025 ==
    <<
       [word |-> <<"a", "i">>, points |-> 25],
       [word |-> <<"q", "u", "a", "n", "t", "u", "m">>, points |-> 24],
       [word |-> <<"n", "e", "u", "r", "a", "l">>, points |-> 23],
       [word |-> <<"l", "l", "m">>, points |-> 22],
       [word |-> <<"a", "g", "e", "n", "t">>, points |-> 21],
       [word |-> <<"a", "u", "t", "o", "n", "o", "m", "o", "u", "s">>, points |-> 20],
       [word |-> <<"s", "y", "n", "t", "h", "e", "t", "i", "c">>, points |-> 19],
       [word |-> <<"d", "e", "f", "i">>, points |-> 22],
       [word |-> <<"n", "f", "t">>, points |-> 18],
       [word |-> <<"w", "e", "b", "3">>, points |-> 21],
       [word |-> <<"b", "l", "o", "c", "k", "c", "h", "a", "i", "n">>, points |-> 19],
       [word |-> <<"t", "o", "k", "e", "n">>, points |-> 17],
       [word |-> <<"c", "l", "i", "m", "a", "t", "e">>, points |-> 23],
       [word |-> <<"c", "a", "r", "b", "o", "n">>, points |-> 21],
       [word |-> <<"r", "e", "n", "e", "w", "a", "b", "l", "e">>, points |-> 20],
       [word |-> <<"s", "o", "l", "a", "r">>, points |-> 19],
       [word |-> <<"s", "u", "s", "t", "a", "i", "n", "a", "b", "l", "e">>, points |-> 18],
       [word |-> <<"l", "o", "n", "g", "e", "v", "i", "t", "y">>, points |-> 24],
       [word |-> <<"b", "i", "o", "h", "a", "c", "k">>, points |-> 22],
       [word |-> <<"w", "e", "l", "l", "n", "e", "s", "s">>, points |-> 20],
       [word |-> <<"m", "e", "n", "t", "a", "l">>, points |-> 19],
       [word |-> <<"t", "h", "e", "r", "a", "p", "y">>, points |-> 18],
       [word |-> <<"s", "h", "o", "p">>, points |-> 16],
       [word |-> <<"m", "a", "r", "k", "e", "t", "p", "l", "a", "c", "e">>, points |-> 17],
       [word |-> <<"d", "i", "r", "e", "c", "t">>, points |-> 15],
       [word |-> <<"p", "r", "o">>, points |-> 18],
       [word |-> <<"h", "u", "b">>, points |-> 17],
       [word |-> <<"l", "a", "b", "s">>, points |-> 19],
       [word |-> <<"s", "t", "u", "d", "i", "o">>, points |-> 16],
       [word |-> <<"a", "c", "a", "d", "e", "m", "y">>, points |-> 15]
    >>

\* Math.log10 of the prices of HIGH_VALUE_PATTERNS, in thousandths
Log10Milli ==
    (1500 :> 3176) @@ (2000 :> 3301) @@ (3000 :> 3477) @@ (3500 :> 3544) @@ (4000 :> 3602) @@ (4500 :> 3653) @@ (5000 :> 3699) @@ (8000 :> 3903) @@ (10000 :> 4000) @@ (15000 :> 4176) @@ (25000 :> 4398) @@ (50000 :> 4699)

\* HIGH_VALUE_PATTERNS.shortDomains['.' + tld][length]; 0 stands for undefined
ShortDomainPrice(tld, length) ==
    IF tld = <<"c", "o", "m">>
    THEN (IF length = 3 THEN 50000 ELSE IF length = 4 THEN 10000
          ELSE IF length = 5 THEN 3000 ELSE 0)
    ELSE IF tld = <<"i", "o">>
    THEN (IF length = 3 THEN 15000 ELSE IF length = 4 THEN 5000
          ELSE IF length = 5 THEN 1500 ELSE 0)
    ELSE IF tld = <<"a", "i">>
    THEN (IF length = 3 THEN 25000 ELSE IF length = 4 THEN 8000
          ELSE IF length = 5 THEN 2000 ELSE 0)
    ELSE 0

\* /^get[a-z]+/i
GetPrefix(name) ==
    /\ Len(name) >= 4
    /\ StartsWith(name, <<"g", "e", "t">>)
    /\ name[4] \in Letters

\* HIGH_VALUE_PATTERNS.valuablePatterns: the avgPrice of the first pattern
\* that matches; 0 when none does
ValuablePatternPrice(name) ==
    IF EndsWith(name, <<"a", "i">>) THEN 8000
    ELSE IF GetPrefix(name) THEN 5000
    ELSE IF EndsWith(name, <<"l", "a", "b", "s">>) THEN 4500
    ELSE IF EndsWith(name, <<"h", "u", "b">>) THEN 4000
    ELSE IF EndsWith(name, <<"p", "r", "o">>) THEN 3500
    ELSE 0

\* Math.round of a non-negative number of thousandths
RoundMilli(x) == (x + 500) \div 1000

\* the number of matches of /[bcdfghjklmnpqrstvwxyz]{3,}/gi: the maximal runs
\* of three or more consonants
ConsonantClusters(name) ==
    Cardinality({ i \in 1 .. Len(name) :
        /\ name[i] \in Consonants
        /\ (i = 1 \/ name[i - 1] \notin Consonants)
        /\ i + 2 <= Len(name)
        /\ name[i + 1] \in Consonants
        /\ name[i + 2] \in Consonants })

calculateDomainMetrics(domainName) ==
    LET nameWithoutTld == ToLowerCase(SplitDot(domainName, 0))
        length == Len(nameWithoutTld)
        hasNumbers == HasDigit(nameWithoutTld)
        hasHyphens == HasHyphen(nameWithoutTld)
        consonantClusters == ConsonantClusters(nameWithoutTld)
        isPronnounceable ==
            /\ ~hasNumbers
            /\ ~hasHyphens
            /\ consonantClusters = 0
            /\ Pronounceable(nameWithoutTld)
        isBrandable ==
            /\ length >= 4
            /\ length <= 12
            /\ isPronnounceable
            /\ \A i \in 1 .. length :
                   nameWithoutTld[i] \notin (Digits \cup {"-", "_"})
    IN  [ domain_name |-> domainName,
          tld |-> IF SplitDot(domainName, 1) = <<>> THEN <<"c", "o", "m">>
                  ELSE SplitDot(domainName, 1),
          length |-> length,
          hasNumbers |-> hasNumbers,
          hasHyphens |-> hasHyphens,
          consonantClusters |-> consonantClusters,
          isPronnounceable |-> isPronnounceable,
          isBrandable |-> isBrandable ]

engineScoreNameQuality(metrics) ==
    LET name == ToLowerCase(SplitDot(metrics.domain_name, 0))
    IN  IF IsGibberish(name) THEN 0
        ELSE Max(0, Min(30,
                 (IF metrics.length <= 4 THEN 10
                  ELSE IF metrics.length <= 8 THEN 8
                  ELSE IF metrics.length <= 12 THEN 5
                  ELSE 2)
                 + (IF metrics.isPronnounceable THEN 10
                    ELSE IF metrics.consonantClusters = 0 THEN 5 ELSE 0)
                 + (IF metrics.isBrandable THEN 10 ELSE 0)
                 - (IF metrics.hasNumbers THEN 5 ELSE 0)
                 - (IF metrics.hasHyphens THEN 5 ELSE 0)
                 - 3 * metrics.consonantClusters))

RECURSIVE EngineTrendingSum(_, _)
EngineTrendingSum(name, k) ==
    IF k = 0 THEN 0
    ELSE EngineTrendingSum(name, k - 1)
         + (IF Includes(name, TRENDING_KEYWORDS_2025[k].word)
            THEN TRENDING_KEYWORDS_2025[k].points ELSE 0)

EngineTrendingMatches(name) ==
    Cardinality({ k \in 1 .. Len(TRENDING_KEYWORDS_2025) :
                      Includes(name, TRENDING_KEYWORDS_2025[k].word) })

engineScoreTrendingWords(domainName) ==
    LET name == ToLowerCase(SplitDot(domainName, 0))
    IN  Min(25, EngineTrendingSum(name, Len(TRENDING_KEYWORDS_2025))
                + (IF EngineTrendingMatches(name) >= 2 THEN 5 ELSE 0))

engineScoreHistoricalValue(domainName, tld) ==
    LET name == ToLowerCase(SplitDot(domainName, 0))
        short == ShortDomainPrice(tld, Len(name))
        pattern == ValuablePatternPrice(name)
    IN  Min(25, RoundMilli(
            (IF short # 0 THEN Min(15000, 3 * Log10Milli[short]) ELSE 0)
            + (IF pattern # 0 THEN Min(10000, (5 * Log10Milli[pattern]) \div 2) ELSE 0)))

EngineCommonWords ==
    {<<"g", "e", "t">>, <<"m", "y">>, <<"t", "h", "e">>, <<"g", "o">>, <<"b", "e">>, <<"u", "s", "e">>, <<"f", "i", "n", "d">>, <<"m", "a", "k", "e">>, <<"b", "u", "i", "l", "d">>, <<"l", "e", "a", "r", "n">>}

engineScoreTechnicalMetrics(domainName, tld) ==
    LET name == ToLowerCase(SplitDot(domainName, 0))
    IN  Min(20,
            TldPoints(tld)
            + (IF \E w \in EngineCommonWords : StartsWith(name, w) \/ EndsWith(name, w)
               THEN 5 ELSE 0)
            + (IF OnlyLowerLetters(name) THEN 5 ELSE 0))

EngineReasoning(totalScore) ==
    IF totalScore >= 80 THEN "Exceptional domain with high marketability"
    ELSE IF totalScore >= 60 THEN "Strong domain with good potential"
    ELSE IF totalScore >= 40 THEN "Decent domain worth considering"
    ELSE IF totalScore >= 20 THEN "Average domain with limited appeal"
    ELSE "Low quality - likely gibberish or poor brandability"

engineCalculateDomainScore(domainName) ==
    LET metrics == calculateDomainMetrics(domainName)
        nq == engineScoreNameQuality(metrics)
        tw == engineScoreTrendingWords(domainName)
        hv == engineScoreHistoricalValue(domainName, metrics.tld)
        tm == engineScoreTechnicalMetrics(domainName, metrics.tld)
        totalScore == nq + tw + hv + tm
    IN  [ totalScore |-> totalScore,
          breakdown |-> [ nameQuality |-> nq, trendingWords |-> tw,
                          historicalValue |-> hv, technicalMetrics |-> tm ],
          badges |-> (IF tw >= 20 THEN <<"Trending">> ELSE <<>>)
                     \o (IF nq >= 25 THEN <<"Premium">> ELSE <<>>)
                     \o (IF hv >= 20 THEN <<"High Value">> ELSE <<>>)
                     \o (IF metrics.length <= 5 THEN <<"Short">> ELSE <<>>)
                     \o (IF metrics.isBrandable THEN <<"Brandable">> ELSE <<>>),
          reasoning |-> EngineReasoning(totalScore) ]

\* the domain names of the model's feeds
GetCloudHubCom == <<"g", "e", "t", "c", "l", "o", "u", "d", "h", "u", "b", ".", "c", "o", "m">>
Xqzzy123Com == <<"x", "q", "z", "z", "y", "1", "2", "3", ".", "c", "o", "m">>
AiCom == <<"a", "i", ".", "c", "o", "m">>
LongDigitsXyz == <<"a", "1", "b", "2", "c", "3", "d", "4", "e", "5", "f", "6", "g", "7", ".", "x", "y", "z">>
SolarLabsIo == <<"s", "o", "l", "a", "r", "l", "a", "b", "s", ".", "i", "o">>

FeedNames == {GetCloudHubCom, Xqzzy123Com, AiCom, LongDigitsXyz, SolarLabsIo}

\* calculateDomainScore of the names of the model's feeds, computed once
Scores == [name \in FeedNames |-> calculateDomainScore(name)]

scoreOf(domainName) ==
    IF domainName \in FeedNames THEN Scores[domainName]
    ELSE calculateDomainScore(domainName)

(***************************************************************************)
(* Date/status utilities.                                                  *)
(***************************************************************************)

\* the if-cascade shared by every determineStatus of the repository
StatusBandOffByOne(daysSinceExpiry) ==
    IF daysSinceExpiry < 0 THEN "active"
    ELSE IF daysSinceExpiry < 30 THEN "grace"
    ELSE IF daysSinceExpiry < 60 THEN "redemption"
    ELSE IF daysSinceExpiry < 75 THEN "pending_delete"
    ELSE "dropped"

StatusBand(daysSinceExpiry) ==
    IF daysSinceExpiry < 0 THEN "active"
    ELSE IF daysSinceExpiry <= 30 THEN "grace"
    ELSE IF daysSinceExpiry <= 60 THEN "redemption"
    ELSE IF daysSinceExpiry <= 75 THEN "pending_delete"
    ELSE "dropped"

\* cleanup.js and the Dynadot ingest: whole days between UTC midnights
daysSinceExpiryUtc(expiryDate, t) ==
    RoundDays(toUtcMidnight(t) - toUtcMidnight(ParseIsoDate(expiryDate)))

determineStatus(expiryDate, t) == StatusBand(daysSinceExpiryUtc(expiryDate, t))

calculateDaysUntilDrop(dropDate, t) ==
    RoundDays(toUtcMidnight(ParseIsoDate(dropDate)) - toUtcMidnight(t))

\* ingest-dropcatch.js: the same on raw instants, with floor and ceil
daysSinceExpiryRaw(expiryDate, t) == FloorDays(t - ParseIsoDate(expiryDate))

determineStatusRaw(expiryDate, t) == StatusBand(daysSinceExpiryRaw(expiryDate, t))

calculateDaysUntilDropRaw(dropDate, t) == CeilDays(ParseIsoDate(dropDate) - t)

\* calculateExpiryFromDrop(dropDate): the drop date moved back 75 local days
calculateExpiryFromDrop(z, dropDate) ==
    ToIsoDate(AddLocalDays(z, ParseIsoDate(dropDate), -75))

\* upsertDomain, lines 635-636: the drop instant recomputed from expiryDate
upsertDropInstant(z, expiryDate) == AddLocalDays(z, ParseIsoDate(expiryDate), 75)

\* calculateDropDate(expiryDate) and upsertDomain's drop_date
calculateDropDate(z, expiryDate) == ToIsoDate(upsertDropInstant(z, expiryDate))

\* upsertDomain, lines 638-640
upsertDaysUntilDrop(z, expiryDate, t) == CeilDays(upsertDropInstant(z, expiryDate) - t)

\* upsertDomain, line 664
upsertStatus(daysUntilDrop) == IF daysUntilDrop >= 0 THEN "pending_delete" ELSE "dropped"

(***************************************************************************)
(* External lookups: what the resolver, the WHOIS server and the registrar *)
(* search page answer for one domain.                                      *)
(*   DNS:    "records" (an Answer array), "norecords", "error" (fetch or   *)
(*           JSON failure, timeout);                                       *)
(*   scrape: "taken_marker", "available_marker", "both_markers",           *)
(*           "no_marker" (the page matched), "http_403", "network_error";  *)
(*   WHOIS:  one answer per query of the domain, in order; an answer is an *)
(*           error (transient-looking or not), an empty result, or a       *)
(*           record of fields.                                             *)
(***************************************************************************)

DnsAnswers == {"records", "norecords", "error"}

ScrapeAnswers ==
    {"taken_marker", "available_marker", "both_markers", "no_marker",
     "http_403", "network_error"}

WhoisError(transient) == [kind |-> "error", transient |-> transient]

WhoisEmpty == [kind |-> "empty"]

\* lastError of queryWhoisWithRetry when no query was made: null
WhoisNull == [kind |-> "null"]

\* a WHOIS record: whether a status field holds an ok/active/client/server/
\* registered token, the creation date (if parseable), whether a registrar field
\* is set, and the expiry date (if parseable) with the name of the field it is in
WhoisRecord(activeStatus, hasCreation, creation, registrar, expiryKey, hasExpiry, expiry) ==
    [ kind |-> "data", activeStatus |-> activeStatus,
      hasCreation |-> hasCreation, creation |-> creation,
      registrar |-> registrar,
      expiryKey |-> expiryKey, hasExpiry |-> hasExpiry, expiry |-> expiry ]

\* the expiry field names each validator looks up
ExpiryKeysMultiMethod ==
    { "expirationDate", "expiresDate", "registryExpiryDate", "Registry Expiry Date",
      "Expiry Date", "Expiration Date", "paid_till", "paid-till", "expires", "expiry",
      "domain_expiration_date", "Domain Expiration Date", "expiration", "expire_date",
      "expire-date", "expiry_date", "expiry-date", "free-date", "renewal_date",
      "renewal-date" }

ExpiryKeysScored ==
    { "expirationDate", "expiresDate", "registryExpiryDate", "Registry Expiry Date",
      "paid_till" }

ExpiryKeysLib == { "expirationDate" }

\* quickDomainCheck: the DNS A lookup as a tri-state
quickDomainCheck(dnsAnswer) ==
    IF dnsAnswer = "records" THEN "registered"
    ELSE IF dnsAnswer = "norecords" THEN "available"
    ELSE "unknown"

\* the scrape as a verdict: whatever is not taken is available
getNamecheapStatusOrAvailable(scrapeAnswer) ==
    IF scrapeAnswer \in {"taken_marker", "both_markers"} THEN "taken"
    ELSE "available"

\* getNamecheapStatus: the scrape as a tri-state; the taken markers are tested
\* first, and every request failure is "unknown"
getNamecheapStatus(scrapeAnswer) ==
    IF scrapeAnswer \in {"taken_marker", "both_markers"} THEN "taken"
    ELSE IF scrapeAnswer = "available_marker" THEN "available"
    ELSE "unknown"

\* queryWhoisWithRetry: up to retryAttempts queries; a further query only after
\* a transient-looking error.  threw: the last error was rethrown; with a retry
\* count below 1 the loop makes no query and the function throws null.
\* the same loop retrying after every error, transient or not
RECURSIVE WhoisAttemptAfterAnyError(_, _, _)
WhoisAttemptAfterAnyError(answers, retryAttempts, attempt) ==
    LET a == answers[attempt]
    IN  IF a.kind # "error"
        THEN [threw |-> FALSE, result |-> a, queries |-> attempt]
        ELSE IF attempt < retryAttempts
        THEN WhoisAttemptAfterAnyError(answers, retryAttempts, attempt + 1)
        ELSE [threw |-> TRUE, result |-> a, queries |-> attempt]

RECURSIVE WhoisAttempt(_, _, _)
WhoisAttempt(answers, retryAttempts, attempt) ==
    LET a == answers[attempt]
    IN  IF a.kind # "error"
        THEN [threw |-> FALSE, result |-> a, queries |-> attempt]
        ELSE IF a.transient /\ attempt < retryAttempts
        THEN WhoisAttempt(answers, retryAttempts, attempt + 1)
        ELSE [threw |-> TRUE, result |-> a, queries |-> attempt]

queryWhoisWithRetry(answers, retryAttempts) ==
    IF retryAttempts < 1
    THEN [threw |-> TRUE, result |-> WhoisNull, queries |-> 0]
    ELSE WhoisAttempt(answers, retryAttempts, 1)

\* isWhoisClearlyRegistered
isWhoisClearlyRegistered(result, t) ==
    \/ result.activeStatus
    \/ result.hasCreation /\ FloorDays(t - result.creation) <= 30
    \/ result.registrar

\* the same verdict with the window starting a day late
InDropWindowFrom61(expiry, t) ==
    /\ ~(expiry > t)
    /\ ~(FloorDays(t - expiry) < 61 \/ FloorDays(t - expiry) > 80)

\* the verdict from a parsed expiry date: not in the future and 60..80 whole
\* days since expiry
InDropWindow(expiry, t) ==
    /\ ~(expiry > t)
    /\ ~(FloorDays(t - expiry) < 60 \/ FloorDays(t - expiry) > 80)

\* what isActuallyExpiring answers; threw: it answered nothing and threw
Verdict(accept, hadWhoisError, lookups) ==
    [ accept |-> accept, hadWhoisError |-> hadWhoisError, lookups |-> lookups,
      threw |-> FALSE ]

\* the catch block of isActuallyExpiring reads error.message: a TypeError when
\* the error caught is null, thrown out of the function after hadWhoisError
\* was set
CatchThrows(lookups) ==
    [ accept |-> FALSE, hadWhoisError |-> TRUE, lookups |-> lookups,
      threw |-> TRUE ]

WhoisLookups(n) == [i \in 1 .. n |-> "whois"]

\* the catch block with every WHOIS failure rejected
WhoisFailureRejects(dnsStatus, lookups) == Verdict(FALSE, TRUE, lookups)

\* the catch block of isActuallyExpiring in the multi-method script: the WHOIS
\* query threw an error; DNS is trusted
WhoisFailureVerdict(dnsStatus, lookups) ==
    Verdict(dnsStatus = "available", TRUE, lookups)

\* isActuallyExpiring of the multi-method script: DNS, then WHOIS
isActuallyExpiringMultiMethod(dnsAnswer, answers, retryAttempts, t) ==
    LET dnsStatus == quickDomainCheck(dnsAnswer)
        q == queryWhoisWithRetry(answers, retryAttempts)
        looked == <<"dns">> \o WhoisLookups(q.queries)
    IN  IF dnsStatus = "registered" THEN Verdict(FALSE, FALSE, <<"dns">>)
        ELSE IF q.threw /\ q.result = WhoisNull THEN CatchThrows(looked)
        ELSE IF q.threw THEN WhoisFailureVerdict(dnsStatus, looked)
        ELSE IF q.result.kind = "empty" THEN Verdict(dnsStatus = "available", FALSE, looked)
        ELSE IF isWhoisClearlyRegistered(q.result, t) THEN Verdict(FALSE, FALSE, looked)
        ELSE IF ~(q.result.hasExpiry /\ q.result.expiryKey \in ExpiryKeysMultiMethod)
        THEN Verdict(dnsStatus = "available", FALSE, looked)
        ELSE Verdict(InDropWindow(q.result.expiry, t), FALSE, looked)

\* isActuallyExpiring of the scored script: the source named by
\* DOMAIN_STATUS_SOURCE first ("namecheap" unless it is "whois"), then WHOIS;
\* DNS is looked up only after a WHOIS failure in the scrape-first order
isActuallyExpiringScored(statusSource, scrapeAnswer, dnsAnswer, answers, retryAttempts, t) ==
    LET scrapeFirst == statusSource # "whois"
        namecheapStatus == getNamecheapStatus(scrapeAnswer)
        q == queryWhoisWithRetry(answers, retryAttempts)
        before == IF scrapeFirst THEN <<"scrape">> ELSE <<>>
        looked == before \o WhoisLookups(q.queries)
    IN  IF scrapeFirst /\ namecheapStatus = "available" THEN Verdict(TRUE, FALSE, before)
        ELSE IF scrapeFirst /\ namecheapStatus = "taken" THEN Verdict(FALSE, FALSE, before)
        ELSE IF q.threw /\ q.result = WhoisNull THEN CatchThrows(looked)
        ELSE IF q.threw
        THEN IF ~scrapeFirst
             THEN Verdict(namecheapStatus = "available", TRUE, looked \o <<"scrape">>)
             ELSE Verdict(FALSE, TRUE, looked \o <<"dns">>)
        ELSE IF q.result.kind = "empty" THEN Verdict(FALSE, FALSE, looked)
        ELSE IF isWhoisClearlyRegistered(q.result, t) THEN Verdict(FALSE, FALSE, looked)
        ELSE IF ~(q.result.hasExpiry /\ q.result.expiryKey \in ExpiryKeysScored)
        THEN Verdict(FALSE, FALSE, looked)
        ELSE Verdict(InDropWindow(q.result.expiry, t), FALSE, looked)

\* isActuallyExpiring of lib/whois-validator.ts: one WHOIS query, no retry; a
\* thrown query is caught and answered true
isActuallyExpiringLib(answers, t) ==
    LET a == answers[1]
    IN  IF a.kind = "error" THEN Verdict(TRUE, TRUE, <<"whois">>)
        ELSE IF a.kind = "empty" THEN Verdict(FALSE, FALSE, <<"whois">>)
        ELSE IF ~(a.hasExpiry /\ a.expiryKey \in ExpiryKeysLib)
        THEN Verdict(FALSE, FALSE, <<"whois">>)
        ELSE Verdict(InDropWindow(a.expiry, t), FALSE, <<"whois">>)

\* quickCheck of ingest-dropcatch.js: A, NS and SOA lookups awaited together;
\* any failure is caught and answered true
quickCheck(dns3) ==
    IF \E i \in 1 .. 3 : dns3[i].kind = "error"
    THEN Verdict(TRUE, FALSE, <<"dns", "dns", "dns">>)
    ELSE Verdict(~( (\E i \in 1 .. 3 : dns3[i].hasAnswer)
                    \/ (\E i \in 1 .. 3 : dns3[i].status = 0) ),
                 FALSE, <<"dns", "dns", "dns">>)

(***************************************************************************)
(* The store: the domains table, keyed by domain_name.                     *)
(***************************************************************************)

\* a store with no row; id is the serial primary key of the table
EmptyStore == [nextId |-> 1, rows |-> <<>>]

\* the columns of payload laid over those of the row old
MergeColumns(old, payload) ==
    [c \in (DOMAIN old) \cup (DOMAIN payload) |->
        IF c \in DOMAIN payload THEN payload[c] ELSE old[c]]

\* the same call without the conflict target: every call inserts a row
InsertRow(table, payload, t) ==
    [ nextId |-> table.nextId + 1,
      rows |-> Append(table.rows,
                   MergeColumns([id |-> table.nextId, created_at |-> t], payload)) ]

\* upsert(..., {onConflict: 'domain_name'}): the columns given replace those of
\* the row with that domain_name and the other columns of the row stay; without
\* such a row, one is inserted (id and created_at take their defaults)
UpsertRow(table, payload, t) ==
    LET hit == { i \in 1 .. Len(table.rows) :
                     table.rows[i].domain_name = payload.domain_name }
    IN  IF hit # {}
        THEN [table EXCEPT !.rows =
                 [i \in 1 .. Len(table.rows) |->
                     IF i \in hit THEN MergeColumns(table.rows[i], payload)
                     ELSE table.rows[i]]]
        ELSE [ nextId |-> table.nextId + 1,
               rows |-> Append(table.rows,
                            MergeColumns([id |-> table.nextId, created_at |-> t],
                                         payload)) ]

\* the row of the table with the given domain_name
StoredRow(table, name) ==
    table.rows[CHOOSE i \in 1 .. Len(table.rows) : table.rows[i].domain_name = name]

(***************************************************************************)
(* Scored ingestion scripts: fetch, scoreAndFilterDomains, upsertDomain.   *)
(* script = "multiMethod" is the DNS-then-WHOIS script, script = "scored"  *)
(* the one that asks the source named by DOMAIN_STATUS_SOURCE first.       *)
(***************************************************************************)

MAX_DOMAINS_TO_PROCESS == 300

\* const ENABLE_WHOIS_CHECK = true
ENABLE_WHOIS_CHECK == TRUE

\* normalizeDate's null: a drop date the feed gives that does not parse
NoDate == -1

normalizeDate(rawDate) ==
    IF rawDate = NoDate THEN NoDate ELSE ToIsoDate(ParseIsoDate(rawDate))

\* the characters String.prototype.trim removes (those the model's names use)
Whitespace == {" ", "\t"}

\* String.prototype.trim that leaves the string as it is
NoTrim(s) == s

\* String.prototype.trim
RECURSIVE Trim(_)
Trim(s) ==
    IF s = <<>> THEN s
    ELSE IF Head(s) \in Whitespace THEN Trim(Tail(s))
    ELSE IF s[Len(s)] \in Whitespace THEN Trim(SubSeq(s, 1, Len(s) - 1))
    ELSE s

\* fetchDropCatchDomains: a feed row as a candidate
Candidate(z, row) ==
    [ domainName |-> ToLowerCase(Trim(row.domainName)),
      dropDate |-> normalizeDate(row.dropDate),
      expiryDate |-> calculateExpiryFromDrop(z, normalizeDate(row.dropDate)),
      registrar |-> row.registrar ]

HasValidDropDate(row) == normalizeDate(row.dropDate) # NoDate

\* fetchDropCatchDomains: the rows with a valid drop date and a name, cut to
\* the first MAX_DOMAINS_TO_PROCESS
fetchDropCatchDomains(z, rows) ==
    LET kept == SelectSeq(rows, LAMBDA row :
                    HasValidDropDate(row) /\ Trim(row.domainName) # <<>>)
        parsed == [i \in 1 .. Len(kept) |-> Candidate(z, kept[i])]
    IN  SubSeq(parsed, 1, Min(Len(parsed), MAX_DOMAINS_TO_PROCESS))

\* isActuallyExpiring(domain.domainName, whoisContext) of the running script
isActuallyExpiring(scr, conf, answers, t) ==
    IF ~ENABLE_WHOIS_CHECK THEN Verdict(TRUE, FALSE, <<>>)
    ELSE IF scr = "multiMethod"
    THEN isActuallyExpiringMultiMethod(answers.dns, answers.whois, conf.retryAttempts, t)
    ELSE isActuallyExpiringScored(conf.statusSource, answers.scrape, answers.dns,
                                  answers.whois, conf.retryAttempts, t)

\* the consecutive-failure counter after a rejected candidate
FailuresAfterReject(failures, hadWhoisError) ==
    IF hadWhoisError THEN failures + 1 ELSE 0

\* the same test with the threshold as a floor instead of a divisor
CoolsDownAtOrAbove(failures, cooldownAfter) ==
    ENABLE_WHOIS_CHECK /\ failures > 0 /\ failures >= cooldownAfter

\* whether scoreAndFilterDomains sleeps WHOIS_FAILURE_COOLDOWN_MS after a reject
CoolsDown(failures, cooldownAfter) ==
    ENABLE_WHOIS_CHECK /\ failures > 0 /\ failures % cooldownAfter = 0

\* accepted.sort((a, b) => b.score.total - a.score.total): a stable sort
RECURSIVE SortByScore(_)
SortByScore(items) ==
    IF items = <<>> THEN <<>>
    ELSE LET rest == SortByScore(SubSeq(items, 1, Len(items) - 1))
             x == items[Len(items)]
             before == { i \in 1 .. Len(rest) : rest[i].score.total >= x.score.total }
             k == Cardinality(before)
         IN  SubSeq(rest, 1, k) \o <<x>> \o SubSeq(rest, k + 1, Len(rest))

\* upsertDomain: the auto-categorisation
Category(name) ==
    IF Includes(name, <<"a", "i">>) \/ Includes(name, <<"q", "u", "a", "n", "t", "u", "m">>) THEN "ai"
    ELSE IF Includes(name, <<"c", "l", "i", "m", "a", "t", "e">>) \/ Includes(name, <<"c", "a", "r", "b", "o", "n">>) THEN "climate"
    ELSE IF Includes(name, <<"b", "i", "o">>) \/ Includes(name, <<"h", "e", "a", "l", "t", "h">>) THEN "health"
    ELSE IF Includes(name, <<"c", "r", "y", "p", "t", "o">>) \/ Includes(name, <<"d", "e", "f", "i">>) THEN "crypto"
    ELSE IF Includes(name, <<"s", "h", "o", "p">>) \/ Includes(name, <<"m", "a", "r", "k", "e", "t">>) THEN "ecommerce"
    ELSE "general"

\* upsertDomain: the columns computed from the name alone
NameColumns(domainName) ==
    [ tld |-> SplitDot(domainName, 1),
      category |-> Category(ToLowerCase(domainName)),
      slug |-> DotsToHyphens(domainName) ]

\* NameColumns of the names of the model's feeds, computed once
NameColumnsOfFeedNames == [name \in FeedNames |-> NameColumns(name)]

nameColumnsOf(domainName) ==
    IF domainName \in FeedNames THEN NameColumnsOfFeedNames[domainName]
    ELSE NameColumns(domainName)

\* upsertDomain: the row it sends to the store
UpsertPayload(z, domain, t) ==
    LET daysUntilDrop == upsertDaysUntilDrop(z, domain.expiryDate, t)
        named == nameColumnsOf(domain.domainName)
    IN  [ domain_name |-> domain.domainName,
          tld |-> named.tld,
          expiry_date |-> domain.expiryDate,
          drop_date |-> calculateDropDate(z, domain.expiryDate),
          days_until_drop |-> daysUntilDrop,
          popularity_score |-> domain.score.total,
          category |-> named.category,
          registrar |-> domain.registrar,
          status |-> upsertStatus(daysUntilDrop),
          slug |-> named.slug,
          title |-> [dropping_in_days |-> daysUntilDrop],
          last_updated |-> t,
          metadata |-> [ nameQuality |-> domain.score.nameQuality,
                         trendingWords |-> domain.score.trendingWords,
                         historicalValue |-> domain.score.historicalValue,
                         technicalMetrics |-> domain.score.technicalMetrics,
                         badges |-> domain.score.badges,
                         reasoning |-> domain.score.reasoning ] ]

NoCounts == [lowScore |-> 0, stillRegistered |-> 0]
NoSleeps == [cooldown |-> 0, request |-> 0]

\* main, up to the call of scoreAndFilterDomains: the feed is fetched; with no
\* candidate the run ends at once
StartBatch(scr) ==
    /\ pc = "idle"
    /\ runsLeft > 0
    /\ runsLeft' = runsLeft - 1
    /\ script' = scr
    /\ candidates' = fetchDropCatchDomains(zone, feed)
    /\ index' = 0
    /\ accepted' = <<>>
    /\ rejected' = NoCounts
    /\ consecutiveWhoisFailures' = 0
    /\ saveQueue' = <<>>
    /\ slept' = NoSleeps
    /\ journal' = <<>>
    /\ written' = <<>>
    /\ IF fetchDropCatchDomains(zone, feed) = <<>>
       THEN /\ pc' = "idle"
            /\ history' = Append(history, [script |-> scr, at |-> now, store |-> store])
       ELSE /\ pc' = "filtering"
            /\ UNCHANGED history
    /\ UNCHANGED <<now, envVars, webVars, dateVars, probeVars, store, storeError, ticksLeft>>

\* the loop without the gate: every candidate goes on to validation
PassesScoreGateAlways(score) == TRUE

\* score.total < MIN_SCORE sends the candidate to the low-score rejects
PassesScoreGate(score) == ~(score.total < MIN_SCORE)

\* a low-score reject that is not counted
RejectLowScoreUncounted(counts) == counts

\* rejected.lowScore++
RejectLowScore(counts) == [counts EXCEPT !.lowScore = @ + 1]

\* one iteration of the loop of scoreAndFilterDomains
ProcessCandidate ==
    /\ pc = "filtering"
    /\ script \in {"multiMethod", "scored"}
    /\ index < Len(candidates)
    /\ LET domain == candidates[index + 1]
           score == scoreOf(domain.domainName)
           verdict == isActuallyExpiring(script, cfg, world[domain.domainName], now)
           failures == FailuresAfterReject(consecutiveWhoisFailures, verdict.hadWhoisError)
       IN  IF ~PassesScoreGate(score)
           THEN /\ rejected' = RejectLowScore(rejected)
                /\ journal' = Append(journal,
                       [ domainName |-> domain.domainName, total |-> score.total,
                         validated |-> FALSE, accept |-> FALSE,
                         hadWhoisError |-> FALSE, lookups |-> <<>> ])
                /\ index' = index + 1
                /\ UNCHANGED <<accepted, consecutiveWhoisFailures, slept, pc, history>>
           ELSE IF verdict.threw
           THEN \* the exception leaves scoreAndFilterDomains; main logs it and
                \* exits
                /\ pc' = "idle"
                /\ history' = Append(history,
                                  [script |-> script, at |-> now, store |-> store])
                /\ UNCHANGED <<index, journal, accepted, rejected,
                               consecutiveWhoisFailures, slept>>
           ELSE /\ journal' = Append(journal,
                       [ domainName |-> domain.domainName, total |-> score.total,
                         validated |-> TRUE, accept |-> verdict.accept,
                         hadWhoisError |-> verdict.hadWhoisError,
                         lookups |-> verdict.lookups ])
                /\ index' = index + 1
                /\ UNCHANGED <<pc, history>>
                /\ IF ~verdict.accept
                   THEN /\ rejected' = [rejected EXCEPT !.stillRegistered = @ + 1]
                        /\ consecutiveWhoisFailures' = failures
                        /\ slept' = IF CoolsDown(failures, cfg.cooldownAfter)
                                    THEN [slept EXCEPT !.cooldown = @ + 1]
                                    ELSE slept
                        /\ UNCHANGED accepted
                   ELSE /\ consecutiveWhoisFailures' = 0
                        /\ accepted' = Append(accepted,
                               [ domainName |-> domain.domainName,
                                 dropDate |-> domain.dropDate,
                                 expiryDate |-> domain.expiryDate,
                                 registrar |-> domain.registrar,
                                 score |-> score ])
                        /\ slept' = IF ENABLE_WHOIS_CHECK
                                    THEN [slept EXCEPT !.request = @ + 1]
                                    ELSE slept
                        /\ UNCHANGED rejected
    /\ UNCHANGED <<now, envVars, webVars, dateVars, probeVars, store, written, storeError,
                   runsLeft, ticksLeft, script, candidates, saveQueue>>

\* the end of scoreAndFilterDomains: the accepted candidates sorted by score;
\* main returns when there is none
FinishFilter ==
    /\ pc = "filtering"
    /\ index = Len(candidates)
    /\ saveQueue' = SortByScore(accepted)
    /\ IF accepted = <<>>
       THEN /\ pc' = "idle"
            /\ history' = Append(history, [script |-> script, at |-> now, store |-> store])
       ELSE /\ pc' = "saving"
            /\ UNCHANGED history
    /\ UNCHANGED <<now, envVars, webVars, dateVars, probeVars, store, written, storeError,
                   runsLeft, ticksLeft, script, candidates, index, accepted, rejected,
                   consecutiveWhoisFailures, slept, journal>>

\* main: upsertDomain of the next accepted candidate; the store may refuse the
\* upsert, which is logged and changes nothing
UpsertNext(storeOk) ==
    /\ pc = "saving"
    /\ saveQueue # <<>>
    /\ LET payload == UpsertPayload(zone, Head(saveQueue), now)
           table == IF storeOk THEN UpsertRow(store, payload, now) ELSE store
       IN  /\ store' = table
           /\ written' = IF storeOk
                         THEN Append(written, [ row |-> StoredRow(table, payload.domain_name),
                                                at |-> now, by |-> script ])
                         ELSE written
           /\ storeError' = (storeError \/ ~storeOk)
           /\ saveQueue' = Tail(saveQueue)
           /\ IF Tail(saveQueue) = <<>>
              THEN /\ pc' = "idle"
                   /\ history' = Append(history,
                                    [script |-> script, at |-> now, store |-> table])
              ELSE /\ pc' = "saving"
                   /\ UNCHANGED history
    /\ UNCHANGED <<now, envVars, webVars, dateVars, probeVars, runsLeft, ticksLeft, script,
                   candidates, index, accepted, rejected, consecutiveWhoisFailures,
                   slept, journal>>

(***************************************************************************)
(* The lifecycle sweep: main of cleanup.js.                                *)
(***************************************************************************)

\* updateDomainStatuses: every row that is not dropped gets the status of its
\* expiry date and the whole days to its drop date
\* the same pass writing only the rows whose status changed
updateDomainStatusesOnStatusChange(table, t) ==
    [table EXCEPT !.rows =
        [i \in 1 .. Len(table.rows) |->
            LET domain == table.rows[i]
                newStatus == determineStatus(domain.expiry_date, t)
                newDaysUntilDrop == calculateDaysUntilDrop(domain.drop_date, t)
            IN  IF domain.status # "dropped" /\ newStatus # domain.status
                THEN [domain EXCEPT !.status = newStatus,
                                    !.days_until_drop = newDaysUntilDrop,
                                    !.last_updated = t]
                ELSE domain]]

updateDomainStatuses(table, t) ==
    [table EXCEPT !.rows =
        [i \in 1 .. Len(table.rows) |->
            LET domain == table.rows[i]
                newStatus == determineStatus(domain.expiry_date, t)
                newDaysUntilDrop == calculateDaysUntilDrop(domain.drop_date, t)
            IN  IF domain.status # "dropped"
                   /\ (newStatus # domain.status
                       \/ newDaysUntilDrop # domain.days_until_drop)
                THEN [domain EXCEPT !.status = newStatus,
                                    !.days_until_drop = newDaysUntilDrop,
                                    !.last_updated = t]
                ELSE domain]]

\* delete().in('status', ['grace', 'redemption'])
removeTooEarly(table) ==
    [table EXCEPT !.rows =
        SelectSeq(table.rows, LAMBDA r : r.status \notin {"grace", "redemption"})]

\* delete().eq('status', 'pending_delete')
\*         .or('days_until_drop.lt.0,days_until_drop.gt.10')
removeOutsideWindow(table) ==
    [table EXCEPT !.rows =
        SelectSeq(table.rows, LAMBDA r :
            ~(r.status = "pending_delete"
              /\ (r.days_until_drop < 0 \/ r.days_until_drop > 10)))]

\* cutoffDate of deleteOldDroppedDomains: the UTC date of the instant 30 local
\* days before now
cutoffDate(z, t) == ToIsoDate(AddLocalDays(z, t, -30))

\* deleteOldDroppedDomains: delete().eq('status', 'dropped').lt('drop_date', cutoffDate)
deleteOldDroppedDomains(z, table, t) ==
    [table EXCEPT !.rows =
        SelectSeq(table.rows, LAMBDA r :
            ~(r.status = "dropped" /\ r.drop_date < cutoffDate(z, t)))]

\* main of cleanup.js on the domains table; a step the store refuses logs the
\* error and changes nothing
Cleanup(updateOk, earlyOk, windowOk, deleteOk) ==
    /\ pc = "idle"
    /\ runsLeft > 0
    /\ runsLeft' = runsLeft - 1
    /\ LET updated == IF updateOk THEN updateDomainStatuses(store, now) ELSE store
           early == IF earlyOk THEN removeTooEarly(updated) ELSE updated
           window == IF windowOk THEN removeOutsideWindow(early) ELSE early
           swept == IF deleteOk THEN deleteOldDroppedDomains(zone, window, now)
                    ELSE window
       IN  /\ store' = swept
           /\ storeError' = (storeError \/ ~(updateOk /\ earlyOk /\ windowOk /\ deleteOk))
           /\ history' = Append(history,
                  [ script |-> "cleanup", at |-> now, store |-> swept,
                    before |-> store, updated |-> updated,
                    deleteOk |-> deleteOk, updateOk |-> updateOk,
                    ok |-> (updateOk /\ earlyOk /\ windowOk /\ deleteOk) ])
    /\ UNCHANGED <<now, envVars, webVars, dateVars, probeVars, runVars, written, ticksLeft>>

\* a day goes by between two runs
DayPasses ==
    /\ pc = "idle"
    /\ ticksLeft > 0
    /\ ticksLeft' = ticksLeft - 1
    /\ now' = now + 24
    /\ UNCHANGED <<envVars, webVars, dateVars, probeVars, runVars, storeVars, runsLeft>>

(***************************************************************************)
(* The ingest-now route: GET /api/ingest-now.                              *)
(***************************************************************************)

\* fetchDropCatchData and the slice(0, 100) of GET
INGEST_NOW_LIMIT == 100

fetchDropCatchData(rows) ==
    SubSeq(rows, 1, Min(Len(rows), INGEST_NOW_LIMIT))

\* the route's upsertDomain: the days from the feed's drop date
routeDaysUntilDrop(dropDate, t) == CeilDays(ParseIsoDate(dropDate) - t)

\* an unparseable drop date makes toISOString throw, which the route catches
routeStores(dropDate, t) ==
    /\ dropDate # NoDate
    /\ ~(routeDaysUntilDrop(dropDate, t) < 0 \/ routeDaysUntilDrop(dropDate, t) > 7)

RouteCategories == << <<"t", "e", "c", "h">>, <<"f", "i", "n", "a", "n", "c", "e">>, <<"h", "e", "a", "l", "t", "h">>, <<"e", "c", "o", "m", "m", "e", "r", "c", "e">> >>

RouteCategory(name) ==
    IF \E i \in 1 .. Len(RouteCategories) : Includes(name, RouteCategories[i])
    THEN RouteCategories[CHOOSE i \in 1 .. Len(RouteCategories) :
             /\ Includes(name, RouteCategories[i])
             /\ \A j \in 1 .. (i - 1) : ~Includes(name, RouteCategories[j])]
    ELSE <<"g", "e", "n", "e", "r", "a", "l">>

\* the route's upsertDomain: the columns computed from the name alone
RouteNameColumns(rawName) ==
    LET domainName == ToLowerCase(rawName)
    IN  [ domain_name |-> domainName,
          tld |-> LastLabel(domainName),
          category |-> RouteCategory(domainName),
          slug |-> DotsToHyphens(domainName) ]

\* RouteNameColumns of the names of the model's feeds, computed once
RouteNameColumnsOfFeedNames == [name \in FeedNames |-> RouteNameColumns(name)]

routeNameColumnsOf(rawName) ==
    IF rawName \in FeedNames THEN RouteNameColumnsOfFeedNames[rawName]
    ELSE RouteNameColumns(rawName)

RoutePayload(row, t, popularity) ==
    LET named == routeNameColumnsOf(row.domainName)
    IN  [ domain_name |-> named.domain_name,
          tld |-> named.tld,
          drop_date |-> ToIsoDate(ParseIsoDate(row.dropDate)),
          days_until_drop |-> routeDaysUntilDrop(row.dropDate, t),
          status |-> "pending_delete",
          registrar |-> row.registrar,
          popularity_score |-> popularity,
          category |-> named.category,
          slug |-> named.slug,
          title |-> [available_soon |-> TRUE],
          last_updated |-> t ]

StartRoute ==
    /\ pc = "idle"
    /\ runsLeft > 0
    /\ runsLeft' = runsLeft - 1
    /\ script' = "ingestNow"
    /\ candidates' = fetchDropCatchData(feed)
    /\ index' = 0
    /\ accepted' = <<>>
    /\ rejected' = NoCounts
    /\ consecutiveWhoisFailures' = 0
    /\ saveQueue' = <<>>
    /\ slept' = NoSleeps
    /\ journal' = <<>>
    /\ written' = <<>>
    /\ IF feed = <<>>
       THEN /\ pc' = "idle"
            /\ history' = Append(history, [script |-> "ingestNow", at |-> now,
                                           store |-> store])
       ELSE /\ pc' = "route"
            /\ UNCHANGED history
    /\ UNCHANGED <<now, envVars, webVars, dateVars, probeVars, store, storeError, ticksLeft>>

\* one iteration of GET's loop: upsertDomain(domain); popularity is the value
\* Math.floor(Math.random() * 40) + 60 takes
RouteUpsert(popularity, storeOk) ==
    /\ pc = "route"
    /\ index < Len(candidates)
    /\ LET row == candidates[index + 1]
           payload == RoutePayload(row, now, popularity)
           stores == routeStores(row.dropDate, now)
           table == IF stores /\ storeOk THEN UpsertRow(store, payload, now) ELSE store
       IN  /\ store' = table
           /\ written' = IF stores /\ storeOk
                         THEN Append(written, [ row |-> StoredRow(table, payload.domain_name),
                                                at |-> now, by |-> script ])
                         ELSE written
           /\ storeError' = (storeError \/ (stores /\ ~storeOk))
           /\ IF index + 1 = Len(candidates)
              THEN /\ pc' = "idle"
                   /\ history' = Append(history,
                                    [script |-> script, at |-> now, store |-> table])
              ELSE /\ pc' = "route"
                   /\ UNCHANGED history
    /\ index' = index + 1
    /\ UNCHANGED <<now, envVars, webVars, dateVars, probeVars, runsLeft, ticksLeft, script,
                   candidates, accepted, rejected, consecutiveWhoisFailures, saveQueue,
                   slept, journal>>

\* the clock advances by an hour between two runs
Tick ==
    /\ pc = "idle"
    /\ ticksLeft > 0
    /\ ticksLeft' = ticksLeft - 1
    /\ now' = now + 1
    /\ UNCHANGED <<envVars, webVars, dateVars, probeVars, runVars, storeVars, runsLeft>>

(***************************************************************************)
(* Initial states: what is configured, and the pipeline at rest.           *)
(***************************************************************************)

Today == ToIsoDate(now)

\* the instants the clock can show at the start: a winter, a spring, a summer
\* and an autumn day of the model's year, early and late in the UTC day
StartInstants == { 24 * d + h : d \in {20, 89, 200, 307}, h \in {0, 12, 23} }

\* WHOIS_RETRY_ATTEMPTS, WHOIS_FAILURE_COOLDOWN_AFTER and DOMAIN_STATUS_SOURCE as
\* configured (the defaults are 2, 10 and 'namecheap')
Configs ==
    [ retryAttempts : 1 .. MaxRetryAttempts,
      cooldownAfter : 1 .. MaxCooldownAfter,
      statusSource : {"namecheap", "whois"} ]

DefaultConfig ==
    [retryAttempts |-> 2, cooldownAfter |-> 2, statusSource |-> "namecheap"]

NoCalc == [op |-> "none"]
NoProbe == [validator |-> "none"]

\* no script is running and nothing is stored
AtRest ==
    /\ calc = NoCalc
    /\ probe = NoProbe
    /\ pc = "idle"
    /\ script = "none"
    /\ candidates = <<>>
    /\ index = 0
    /\ accepted = <<>>
    /\ rejected = NoCounts
    /\ consecutiveWhoisFailures = 0
    /\ saveQueue = <<>>
    /\ slept = NoSleeps
    /\ journal = <<>>
    /\ store = EmptyStore
    /\ written = <<>>
    /\ storeError = FALSE
    /\ history = <<>>

\* no feed to ingest
\* the empty favorites table; uniquePair says whether the database declares
\* (user_id, domain_id) unique, which nothing in the route tells
NoFavorites(uniquePair) == [nextId |-> 1, rows |-> {}, uniquePair |-> uniquePair]

\* the web app has served nothing yet: no favourite, no cached price
NoWeb ==
    /\ favorites = NoFavorites(FALSE)
    /\ requests = <<>>
    /\ priceCache = {}
    /\ responses = <<>>

NoIngest ==
    /\ feed = <<>>
    /\ world = <<>>
    /\ runsLeft = 0
    /\ ticksLeft = 0

(***************************************************************************)
(* Calls of the date/status utilities on inputs around the current date.   *)
(***************************************************************************)

DetermineStatusCall(expiryDate) ==
    /\ calc = NoCalc
    /\ calc' = [ op |-> "determineStatus",
                 expiryDate |-> expiryDate,
                 daysSinceExpiry |-> daysSinceExpiryUtc(expiryDate, now),
                 status |-> determineStatus(expiryDate, now),
                 daysSinceExpiryRaw |-> daysSinceExpiryRaw(expiryDate, now),
                 statusRaw |-> determineStatusRaw(expiryDate, now) ]
    /\ UNCHANGED <<now, envVars, webVars, probeVars, ingestVars>>

DaysUntilDropCall(dropDate) ==
    /\ calc = NoCalc
    /\ calc' = [ op |-> "daysUntilDrop",
                 dropDate |-> dropDate,
                 sweep |-> calculateDaysUntilDrop(dropDate, now),
                 raw |-> calculateDaysUntilDropRaw(dropDate, now),
                 upsert |-> upsertDaysUntilDrop(zone,
                                calculateExpiryFromDrop(zone, dropDate), now) ]
    /\ UNCHANGED <<now, envVars, webVars, probeVars, ingestVars>>

RoundTripCall(dropDate) ==
    /\ calc = NoCalc
    /\ calc' = [ op |-> "roundTrip",
                 dropDate |-> dropDate,
                 expiryDate |-> calculateExpiryFromDrop(zone, dropDate),
                 dropAgain |-> calculateDropDate(zone,
                                   calculateExpiryFromDrop(zone, dropDate)) ]
    /\ UNCHANGED <<now, envVars, webVars, probeVars, ingestVars>>

InitDates ==
    /\ now \in StartInstants
    /\ zone \in Zones
    /\ NoWeb
    /\ cfg = DefaultConfig
    /\ AtRest
    /\ NoIngest

NextDates ==
    \/ /\ calc = NoCalc
       /\ \E e \in (Today - 75 - MaxDayRange) .. (Today + MaxDayRange) :
              DetermineStatusCall(e)
    \/ /\ calc = NoCalc
       /\ \E d \in (Today - MaxDayRange) .. (Today + MaxDayRange) : DaysUntilDropCall(d)
    \/ /\ calc = NoCalc
       /\ \E d \in (Today - MaxDayRange) .. (Today + MaxDayRange) : RoundTripCall(d)

SpecDates == InitDates /\ [][NextDates]_vars

(***************************************************************************)
(* Calls of calculateDomainScore, in the ingest scripts and in the         *)
(* scoring engine of lib/, on the same domain name.                        *)
(***************************************************************************)

MaxNameLen == 5

ScoreAlphabet == {"a", "b", "x", "1"}

ScoreTlds == {<<"c", "o", "m">>, <<"x", "y", "z">>}

RECURSIVE NamesOfLen(_)
NamesOfLen(n) ==
    IF n = 0 THEN {<<>>}
    ELSE { Append(w, c) : w \in NamesOfLen(n - 1), c \in ScoreAlphabet }

ScoreNames ==
    FeedNames
    \cup { w \o <<".">> \o tld :
             w \in UNION { NamesOfLen(n) : n \in 1 .. MaxNameLen },
             tld \in ScoreTlds }

ScoreCall(domainName) ==
    /\ calc = NoCalc
    /\ calc' = [ op |-> "score",
                 domainName |-> domainName,
                 script |-> calculateDomainScore(domainName),
                 engine |-> engineCalculateDomainScore(domainName) ]
    /\ UNCHANGED <<now, envVars, webVars, probeVars, ingestVars>>

InitScore ==
    /\ now = 24 * 200 + 12
    /\ zone = UtcZone
    /\ NoWeb
    /\ cfg = DefaultConfig
    /\ AtRest
    /\ NoIngest

NextScore ==
    /\ calc = NoCalc
    /\ \E domainName \in ScoreNames : ScoreCall(domainName)

SpecScore == InitScore /\ [][NextScore]_vars


(***************************************************************************)
(* Calls of the availability validators on every combination of answers.   *)
(***************************************************************************)

\* the WHOIS records a query can return at instant t: with and without a sign
\* of registration, the expiry date missing, in a field some validators do not
\* read, in the future, and on both sides of the 60 and 80 day bounds
WhoisRecordsAt(t) ==
    { WhoisRecord(st, cr # 0, t - cr, rg, key, FALSE, 0) :
          st \in BOOLEAN, cr \in {0, 24 * 30 + 23, 24 * 31}, rg \in BOOLEAN,
          key \in {"expirationDate"} }
    \cup
    { WhoisRecord(st, cr # 0, t - cr, rg, key, TRUE, t - since) :
          st \in BOOLEAN, cr \in {0, 24 * 30 + 23, 24 * 31}, rg \in BOOLEAN,
          key \in {"expirationDate", "paid_till", "expires", "Valid Until"},
          since \in {-1, 0, 24 * 59 + 23, 24 * 60, 24 * 80 + 23, 24 * 81} }

WhoisAnswersAt(t) ==
    {WhoisError(TRUE), WhoisError(FALSE), WhoisEmpty} \cup WhoisRecordsAt(t)

\* what successive WHOIS queries of one domain answer: k transient errors, then
\* the same final answer for every later query
WhoisScenarios(finals, n) ==
    { [i \in 1 .. n |-> IF i <= k THEN WhoisError(TRUE) ELSE final] :
          k \in 0 .. (n - 1), final \in finals }

DnsResponses ==
    {[kind |-> "error", hasAnswer |-> FALSE, status |-> 2]}
    \cup [kind : {"ok"}, hasAnswer : BOOLEAN, status : {0, 3}]

ValidateMultiMethod(dnsAnswer, answers) ==
    /\ probe = NoProbe
    /\ probe' = [ validator |-> "multiMethod", dns |-> dnsAnswer, scrape |-> "none",
                  whois |-> answers,
                  verdict |-> isActuallyExpiringMultiMethod(dnsAnswer, answers,
                                  cfg.retryAttempts, now) ]
    /\ UNCHANGED <<now, envVars, webVars, dateVars, ingestVars>>

ValidateScored(scrapeAnswer, dnsAnswer, answers) ==
    /\ probe = NoProbe
    /\ probe' = [ validator |-> "scored", dns |-> dnsAnswer, scrape |-> scrapeAnswer,
                  whois |-> answers,
                  verdict |-> isActuallyExpiringScored(cfg.statusSource, scrapeAnswer,
                                  dnsAnswer, answers, cfg.retryAttempts, now) ]
    /\ UNCHANGED <<now, envVars, webVars, dateVars, ingestVars>>

ValidateLib(answers) ==
    /\ probe = NoProbe
    /\ probe' = [ validator |-> "lib", dns |-> "none", scrape |-> "none",
                  whois |-> answers,
                  verdict |-> isActuallyExpiringLib(answers, now) ]
    /\ UNCHANGED <<now, envVars, webVars, dateVars, ingestVars>>

QuickCheckCall(dns3) ==
    /\ probe = NoProbe
    /\ probe' = [ validator |-> "quickCheck", dns |-> dns3, scrape |-> "none",
                  whois |-> <<>>,
                  verdict |-> quickCheck(dns3) ]
    /\ UNCHANGED <<now, envVars, webVars, dateVars, ingestVars>>

\* one call of queryWhoisWithRetry; the server may answer each query its own way
QueryWhoisCall(answers) ==
    /\ probe = NoProbe
    /\ probe' = [ validator |-> "queryWhois", dns |-> "none", scrape |-> "none",
                  whois |-> answers,
                  verdict |-> queryWhoisWithRetry(answers, cfg.retryAttempts) ]
    /\ UNCHANGED <<now, envVars, webVars, dateVars, ingestVars>>

\* what one WHOIS query can answer: a transient-looking error, another error,
\* an empty response, a record
QueryAnswers(t) ==
    { WhoisError(TRUE), WhoisError(FALSE), WhoisEmpty,
      WhoisRecord(FALSE, FALSE, 0, FALSE, "expirationDate", TRUE, t - 24 * 65) }

InitValidate ==
    /\ now \in {24 * 200 + 12, 24 * 307 + 23}
    /\ zone = UtcZone
    /\ NoWeb
    /\ cfg \in { c \in Configs : c.cooldownAfter = DefaultConfig.cooldownAfter }
    /\ AtRest
    /\ NoIngest

NextValidate ==
    \/ /\ probe = NoProbe
       /\ \E d \in DnsAnswers,
             w \in WhoisScenarios(WhoisAnswersAt(now), cfg.retryAttempts) :
              ValidateMultiMethod(d, w)
    \/ /\ probe = NoProbe
       /\ \E sc \in ScrapeAnswers, d \in DnsAnswers,
             w \in WhoisScenarios(WhoisAnswersAt(now), cfg.retryAttempts) :
              ValidateScored(sc, d, w)
    \/ /\ probe = NoProbe
       /\ \E w \in WhoisScenarios(WhoisAnswersAt(now), 1) : ValidateLib(w)
    \/ /\ probe = NoProbe
       /\ \E dns3 \in [1 .. 3 -> DnsResponses] : QuickCheckCall(dns3)
    \/ /\ probe = NoProbe
       /\ \E w \in [1 .. cfg.retryAttempts -> QueryAnswers(now)] : QueryWhoisCall(w)

SpecValidate == InitValidate /\ [][NextValidate]_vars

(***************************************************************************)
(* Ingestion runs: the feeds and the answers of the outside world.         *)
(***************************************************************************)

FeedRow(name, dropDate) ==
    [domainName |-> name, dropDate |-> dropDate, registrar |-> "GoDaddy"]

\* the feeds of at most maxLen rows out of the given rows
Feeds(rows, maxLen) ==
    UNION { [1 .. n -> rows] : n \in 0 .. maxLen }

\* what the lookups of one domain answer at instant t.  The WHOIS server answers
\* every query of a run alike.
\*   Available:   no DNS record, the registrar page says available, the WHOIS
\*                record expired 65 days before today and shows no sign of
\*                registration
\*   Registered:  DNS records, the page says taken, an active WHOIS record
\*   Unreachable: every lookup fails
\*   DnsOnly:     no DNS record; the page is blocked and WHOIS refuses
Answers(dnsAnswer, scrapeAnswer, whoisAnswer) ==
    [ dns |-> dnsAnswer, scrape |-> scrapeAnswer,
      whois |-> [i \in 1 .. MaxRetryAttempts |-> whoisAnswer] ]

Available(t) ==
    Answers("norecords", "available_marker",
            WhoisRecord(FALSE, FALSE, 0, FALSE, "expirationDate", TRUE,
                        ParseIsoDate(ToIsoDate(t) - 65)))

Registered(t) ==
    Answers("records", "taken_marker",
            WhoisRecord(TRUE, TRUE, t - 24 * 400, TRUE, "expirationDate", TRUE,
                        ParseIsoDate(ToIsoDate(t) + 200)))

Unreachable == Answers("error", "network_error", WhoisError(TRUE))

DnsOnly == Answers("norecords", "http_403", WhoisError(FALSE))

Scenarios(t) == {Available(t), Registered(t), Unreachable, DnsOnly}

\* the rows of the model's feeds at instant t: two names the scorer rates high,
\* one it rates low, a name listed twice with different dates, a drop date well
\* after the pending-delete days and one that does not parse
FeedRows(t) ==
    { FeedRow(GetCloudHubCom, ToIsoDate(t) + 3),
      FeedRow(GetCloudHubCom, ToIsoDate(t)),
      FeedRow(SolarLabsIo, ToIsoDate(t) + 20),
      FeedRow(Xqzzy123Com, ToIsoDate(t) + 3),
      FeedRow(SolarLabsIo, NoDate) }

\* the answers for the names of FeedRows
Worlds(t) ==
    { (GetCloudHubCom :> g) @@ (SolarLabsIo :> sl) @@ (Xqzzy123Com :> Available(t)) :
          g \in Scenarios(t), sl \in {Available(t), Registered(t)} }

(***************************************************************************)
(* One ingestion run: a batch script or the ingest-now route.              *)
(***************************************************************************)

InitIngest ==
    /\ now = 24 * 307 + 12
    /\ zone \in {UtcZone, StockholmZone}
    /\ NoWeb
    /\ cfg \in { c \in Configs : /\ c.cooldownAfter = DefaultConfig.cooldownAfter
                                 /\ c.retryAttempts = DefaultConfig.retryAttempts }
    /\ AtRest
    /\ feed \in Feeds(FeedRows(now), MaxFeedLen)
    /\ world \in Worlds(now)
    /\ runsLeft = 1
    /\ ticksLeft = 0

NextIngest ==
    \/ \E scr \in {"multiMethod", "scored"} : StartBatch(scr)
    \/ ProcessCandidate
    \/ FinishFilter
    \/ \E storeOk \in BOOLEAN : UpsertNext(storeOk)
    \/ StartRoute
    \/ \E popularity \in {60, 99}, storeOk \in BOOLEAN : RouteUpsert(popularity, storeOk)

SpecIngest == InitIngest /\ [][NextIngest]_vars

(***************************************************************************)
(* The spec's end-to-end scenario: one row, getcloudhub.com dropping in    *)
(* three days, run through the multi-method script.                        *)
(***************************************************************************)

InitEndToEnd ==
    /\ now \in StartInstants
    /\ zone \in Zones
    /\ NoWeb
    /\ cfg \in { c \in Configs : c.cooldownAfter = DefaultConfig.cooldownAfter }
    /\ AtRest
    /\ feed = <<FeedRow(GetCloudHubCom, Today + 3)>>
    /\ world = (GetCloudHubCom :> Available(now))
    /\ runsLeft = 1
    /\ ticksLeft = 0

NextEndToEnd ==
    \/ StartBatch("multiMethod")
    \/ ProcessCandidate
    \/ FinishFilter
    \/ \E storeOk \in BOOLEAN : UpsertNext(storeOk)

SpecEndToEnd == InitEndToEnd /\ [][NextEndToEnd]_vars

(***************************************************************************)
(* Two runs of a batch script on the same feed and the same answers, the   *)
(* clock advancing or not in between.                                      *)
(***************************************************************************)

\* the rows of the feeds run twice: two names the validators can confirm, one of
\* them listed twice with different dates
RerunRows(t) ==
    { FeedRow(GetCloudHubCom, ToIsoDate(t) + 3),
      FeedRow(GetCloudHubCom, ToIsoDate(t)),
      FeedRow(SolarLabsIo, ToIsoDate(t) + 20) }

InitRerun ==
    /\ now = 24 * 307 + 12
    /\ zone \in {UtcZone, StockholmZone}
    /\ NoWeb
    /\ cfg \in { c \in Configs : /\ c.cooldownAfter = DefaultConfig.cooldownAfter
                                 /\ c.retryAttempts = DefaultConfig.retryAttempts }
    /\ AtRest
    /\ feed \in Feeds(RerunRows(now), MaxFeedLen)
    /\ world \in { w \in Worlds(now) : w[SolarLabsIo] = Available(now) }
    /\ runsLeft = 2
    /\ ticksLeft = MaxTicks

NextRerun ==
    \/ \E scr \in {"multiMethod", "scored"} : StartBatch(scr)
    \/ ProcessCandidate
    \/ FinishFilter
    \/ \E storeOk \in BOOLEAN : UpsertNext(storeOk)
    \/ Tick

SpecRerun == InitRerun /\ [][NextRerun]_vars

(***************************************************************************)
(* scoreAndFilterDomains on batches with runs of WHOIS failures.           *)
(***************************************************************************)

\* one row per outcome: accepted, rejected after a WHOIS failure, rejected with
\* WHOIS answering, rejected by the score gate
BatchRows(t) ==
    { FeedRow(GetCloudHubCom, ToIsoDate(t) + 3),
      FeedRow(SolarLabsIo, ToIsoDate(t) + 3),
      FeedRow(AiCom, ToIsoDate(t) + 3),
      FeedRow(Xqzzy123Com, ToIsoDate(t) + 3) }

BatchWorlds(t) ==
    { (GetCloudHubCom :> Available(t)) @@ (SolarLabsIo :> Unreachable)
      @@ (AiCom :> a) @@ (Xqzzy123Com :> Available(t)) :
          a \in {Registered(t), DnsOnly} }

InitCooldown ==
    /\ now = 24 * 200 + 12
    /\ zone = UtcZone
    /\ NoWeb
    /\ cfg \in { c \in Configs : /\ c.retryAttempts = DefaultConfig.retryAttempts
                                 /\ c.statusSource = DefaultConfig.statusSource }
    /\ AtRest
    /\ feed \in Feeds(BatchRows(now), MaxBatch)
    /\ world \in BatchWorlds(now)
    /\ runsLeft = 1
    /\ ticksLeft = 0

NextCooldown ==
    \/ \E scr \in {"multiMethod", "scored"} : StartBatch(scr)
    \/ ProcessCandidate
    \/ FinishFilter

SpecCooldown == InitCooldown /\ [][NextCooldown]_vars

(***************************************************************************)
(* The filter loop under every retry count, 0 (no query at all) included.  *)
(***************************************************************************)

FilterConfigs ==
    [ retryAttempts : 0 .. MaxRetryAttempts,
      cooldownAfter : 1 .. MaxCooldownAfter,
      statusSource : {DefaultConfig.statusSource} ]

InitFilter ==
    /\ now = 24 * 200 + 12
    /\ zone = UtcZone
    /\ NoWeb
    /\ cfg \in FilterConfigs
    /\ AtRest
    /\ feed \in Feeds(BatchRows(now), MaxFeedLen)
    /\ world \in BatchWorlds(now)
    /\ runsLeft = 1
    /\ ticksLeft = 0

NextFilter ==
    \/ \E scr \in {"multiMethod", "scored"} : StartBatch(scr)
    \/ ProcessCandidate
    \/ FinishFilter

SpecFilter == InitFilter /\ [][NextFilter]_vars

(***************************************************************************)
(* Parsing of feeds with padded, upper-case, blank and absent names and    *)
(* with drop dates that do not parse.                                      *)
(***************************************************************************)

PaddedGetCloudHubCom ==
    <<" ", "G", "e", "t", "C", "l", "o", "u", "d", "H", "u", "b", ".", "C", "O", "M", "\t", " ">>

BlankName == <<" ", "\t", " ">>

ParseNames == {PaddedGetCloudHubCom, BlankName, <<>>, AiCom, <<" ">> \o SolarLabsIo}

ParseRows(t) ==
    { FeedRow(name, dropDate) :
          name \in ParseNames, dropDate \in {ToIsoDate(t) + 3, NoDate} }

InitParse ==
    /\ now = 24 * 200 + 12
    /\ zone \in {UtcZone, StockholmZone}
    /\ NoWeb
    /\ cfg = DefaultConfig
    /\ AtRest
    /\ feed \in Feeds(ParseRows(now), MaxFeedLen)
    /\ world = <<>>
    /\ runsLeft = 1
    /\ ticksLeft = 0

NextParse == \E scr \in {"multiMethod", "scored"} : StartBatch(scr)

SpecParse == InitParse /\ [][NextParse]_vars

(***************************************************************************)
(* Cleanup runs over a record the multi-method ingest wrote some days ago. *)
(***************************************************************************)

MaxAge == 36

\* the table after main of the ingest script upserted one accepted candidate
\* at instant t
IngestedStore(z, name, dropDate, t) ==
    LET parsed == Candidate(z, FeedRow(name, dropDate))
        domain == [ domainName |-> parsed.domainName, dropDate |-> parsed.dropDate,
                    expiryDate |-> parsed.expiryDate, registrar |-> parsed.registrar,
                    score |-> scoreOf(parsed.domainName) ]
    IN  UpsertRow(EmptyStore, UpsertPayload(z, domain, t), t)

InitCleanup ==
    /\ now \in { 24 * d + h : d \in {110, 126, 200, 310}, h \in {0, 12, 23} }
    /\ zone \in {UtcZone, StockholmZone}
    /\ NoWeb
    /\ cfg = DefaultConfig
    /\ calc = NoCalc
    /\ probe = NoProbe
    /\ pc = "idle"
    /\ script = "none"
    /\ candidates = <<>>
    /\ index = 0
    /\ accepted = <<>>
    /\ rejected = NoCounts
    /\ consecutiveWhoisFailures = 0
    /\ saveQueue = <<>>
    /\ slept = NoSleeps
    /\ journal = <<>>
    /\ written = <<>>
    /\ storeError = FALSE
    /\ history = <<>>
    /\ feed = <<>>
    /\ world = <<>>
    /\ \E age \in 0 .. MaxAge, ahead \in {0, 3} :
           store = IngestedStore(zone, GetCloudHubCom,
                                 ToIsoDate(now - 24 * age) + ahead, now - 24 * age)
    /\ runsLeft = 2
    /\ ticksLeft = MaxTicks

NextCleanup ==
    \/ \E updateOk, earlyOk, windowOk, deleteOk \in BOOLEAN :
           Cleanup(updateOk, earlyOk, windowOk, deleteOk)
    \/ DayPasses

SpecCleanup == InitCleanup /\ [][NextCleanup]_vars

(***************************************************************************)
(* The validations of a batch at the grain of single lookups: the loop of  *)
(* scoreAndFilterDomains and filterExpiring of lib/whois-validator.ts.     *)
(* probe holds the validations started (in order), those in flight and     *)
(* those finished (in order of completion).                                *)
(***************************************************************************)

\* scoreAndFilterDomains is called with n candidates that pass the score gate
BeginFilterLoop(n) ==
    /\ probe = NoProbe
    /\ probe' = [ validator |-> "scoreAndFilterDomains", domains |-> n,
                  started |-> <<>>, inFlight |-> {}, finished |-> <<>> ]
    /\ UNCHANGED <<now, envVars, webVars, dateVars, ingestVars>>

\* for (...) { ... await isActuallyExpiring(domain.domainName, ...) ... }: the
\* next iteration calls the validator once the call before it has resolved
LoopStartsValidation ==
    /\ probe.validator = "scoreAndFilterDomains"
    /\ probe.inFlight = {}
    /\ Len(probe.started) < probe.domains
    /\ probe' = [probe EXCEPT !.started = Append(@, Len(@) + 1),
                              !.inFlight = {Len(probe.started) + 1}]
    /\ UNCHANGED <<now, envVars, webVars, dateVars, ingestVars>>

\* filterExpiring: Promise.all(domains.map(async (domain) => ...)): map calls
\* the callback of every domain, in order, before any of the promises resolves
BeginFilterExpiring(n) ==
    /\ probe = NoProbe
    /\ probe' = [ validator |-> "filterExpiring", domains |-> n,
                  started |-> [i \in 1 .. n |-> i], inFlight |-> 1 .. n,
                  finished |-> <<>> ]
    /\ UNCHANGED <<now, envVars, webVars, dateVars, ingestVars>>

\* the validator call of domain i resolves
ValidationResolves(i) ==
    /\ probe.validator \in {"scoreAndFilterDomains", "filterExpiring"}
    /\ i \in probe.inFlight
    /\ probe' = [probe EXCEPT !.inFlight = @ \ {i}, !.finished = Append(@, i)]
    /\ UNCHANGED <<now, envVars, webVars, dateVars, ingestVars>>

InitFlight ==
    /\ now = 24 * 200 + 12
    /\ zone = UtcZone
    /\ NoWeb
    /\ cfg = DefaultConfig
    /\ AtRest
    /\ NoIngest

NextFlight ==
    \/ \E n \in 0 .. MaxBatch : BeginFilterLoop(n)
    \/ LoopStartsValidation
    \/ \E n \in 0 .. MaxBatch : BeginFilterExpiring(n)
    \/ \E i \in 1 .. MaxBatch : ValidationResolves(i)

SpecFlight == InitFlight /\ [][NextFlight]_vars

(***************************************************************************)
(* POST /api/favourites/toggle: each request reads the favourite, then     *)
(* deletes or inserts it; requests of the same user run concurrently.      *)
(***************************************************************************)

MaxRequests == 3

NoUser == "none"
NoRow == [id |-> 0]

\* .eq('user_id', user.id).eq('domain_id', domainId)
FavoriteRows(userId, domainId) ==
    { row \in favorites.rows : row.user_id = userId /\ row.domain_id = domainId }

\* .single(): the row when exactly one matches, otherwise an error and no data
Single(rows) == IF Cardinality(rows) = 1 THEN CHOOSE row \in rows : TRUE ELSE NoRow

\* req.json() and auth.getUser(): without a user the route answers 401
TogglePosted(userId, domainId) ==
    /\ Len(requests) < MaxRequests
    /\ requests' = Append(requests,
           [ user |-> userId, domainId |-> domainId,
             pc |-> IF userId = NoUser THEN "done" ELSE "select",
             existing |-> NoRow, seen |-> 0,
             status |-> IF userId = NoUser THEN "401" ELSE "none" ])
    /\ UNCHANGED <<now, envVars, dateVars, probeVars, ingestVars,
                   favorites, priceCache, responses>>

\* const { data: existing } = await supabase.from('favorites').select('*')...
ToggleSelects(r) ==
    /\ requests[r].pc = "select"
    /\ LET rows == FavoriteRows(requests[r].user, requests[r].domainId)
       IN  requests' = [requests EXCEPT ![r].pc = "write",
                                        ![r].existing = Single(rows),
                                        ![r].seen = Cardinality(rows)]
    /\ UNCHANGED <<now, envVars, dateVars, probeVars, ingestVars,
                   favorites, priceCache, responses>>

\* insert({ user_id, domain_id }): a unique pair makes the database refuse a
\* second row; the route does not look at the error
InsertFavorite(table, userId, domainId) ==
    IF table.uniquePair
       /\ \E row \in table.rows : row.user_id = userId /\ row.domain_id = domainId
    THEN table
    ELSE [table EXCEPT !.nextId = @ + 1,
                       !.rows = @ \cup {[ id |-> table.nextId, user_id |-> userId,
                                          domain_id |-> domainId ]}]

\* delete().eq('id', existing.id)
DeleteFavorite(table, id) ==
    [table EXCEPT !.rows = { row \in @ : row.id # id }]

\* if (existing) { delete; 'removed' } else { insert; 'added' }
ToggleWrites(r) ==
    /\ requests[r].pc = "write"
    /\ IF requests[r].existing # NoRow
       THEN /\ favorites' = DeleteFavorite(favorites, requests[r].existing.id)
            /\ requests' = [requests EXCEPT ![r].pc = "done", ![r].status = "removed"]
       ELSE /\ favorites' = InsertFavorite(favorites, requests[r].user,
                                           requests[r].domainId)
            /\ requests' = [requests EXCEPT ![r].pc = "done", ![r].status = "added"]
    /\ UNCHANGED <<now, envVars, dateVars, probeVars, ingestVars,
                   priceCache, responses>>

FavoriteUsers == {"u1"}
FavoriteDomainIds == {1, 2}

InitToggle ==
    /\ now = 24 * 200 + 12
    /\ zone = UtcZone
    /\ cfg = DefaultConfig
    /\ AtRest
    /\ NoIngest
    /\ \E uniquePair \in BOOLEAN : favorites = NoFavorites(uniquePair)
    /\ requests = <<>>
    /\ priceCache = {}
    /\ responses = <<>>

NextToggle ==
    \/ \E userId \in FavoriteUsers \cup {NoUser}, domainId \in FavoriteDomainIds :
           TogglePosted(userId, domainId)
    \/ \E r \in 1 .. Len(requests) : ToggleSelects(r)
    \/ \E r \in 1 .. Len(requests) : ToggleWrites(r)

SpecToggle == InitToggle /\ [][NextToggle]_vars

(***************************************************************************)
(* GET /api/domains: the filters, the sort, the page, the live             *)
(* availability filter and the hasMore flag; and a client that pages.      *)
(***************************************************************************)

MaxRows == 4
MAX_LIMIT == 100

\* a query parameter that is not given; an absent tld or search is the empty
\* string, which the route treats the same
NoParam == "none"

\* getLiveAvailability: Answer records mean registered, a failed lookup unknown
getLiveAvailability(answers) ==
    IF answers.dns = "error" THEN "unknown"
    ELSE IF answers.dns = "records" THEN "registered"
    ELSE "available"

\* the query parameters after parsing, with their defaults
ParsedQuery(q) ==
    [ status |-> IF q.status = NoParam THEN "pending_delete" ELSE q.status,
      tld |-> q.tld,
      category |-> q.category,
      minScore |-> q.minScore,
      maxScore |-> q.maxScore,
      daysMin |-> q.daysMin,
      daysMax |-> q.daysMax,
      limit |-> Min(q.limit, MAX_LIMIT),
      offset |-> q.offset,
      sort |-> IF q.sort = NoParam THEN "days_until_drop" ELSE q.sort,
      order |-> IF q.order = "desc" THEN "desc" ELSE "asc",
      search |-> q.search,
      availableOnly |-> q.availableOnly ]

\* .ilike('domain_name', `%${search}%`)
ILike(name, search) == Includes(ToLowerCase(name), ToLowerCase(search))

\* the filters GET puts on the query
MatchesQuery(row, p) ==
    /\ row.status = p.status
    /\ p.tld # <<>> => row.tld = p.tld
    /\ p.category # NoParam => row.category = p.category
    /\ p.minScore > 0 => row.popularity_score >= p.minScore
    /\ p.maxScore < 100 => row.popularity_score <= p.maxScore
    /\ p.daysMin > 0 => row.days_until_drop >= p.daysMin
    /\ p.daysMax < 100 => row.days_until_drop <= p.daysMax
    /\ p.search # <<>> => ILike(row.domain_name, p.search)

\* the value of the sort column (the numeric columns)
SortKey(row, sort) ==
    IF sort = "drop_date" THEN row.drop_date
    ELSE IF sort = "created_at" THEN row.created_at
    ELSE IF sort = "days_until_drop" THEN row.days_until_drop
    ELSE row.popularity_score

\* query.order(sortColumn, { ascending }): rows with equal keys by id
Before(a, b, p) ==
    IF SortKey(a, p.sort) = SortKey(b, p.sort) THEN a.id < b.id
    ELSE IF p.order = "asc" THEN SortKey(a, p.sort) < SortKey(b, p.sort)
    ELSE SortKey(a, p.sort) > SortKey(b, p.sort)

\* the matching rows in the order of the query
Selected(table, p) ==
    LET match == { i \in 1 .. Len(table.rows) : MatchesQuery(table.rows[i], p) }
        rank(i) == Cardinality({ j \in match :
                                    Before(table.rows[j], table.rows[i], p) }) + 1
    IN  [k \in 1 .. Cardinality(match) |->
            table.rows[CHOOSE i \in match : rank(i) = k]]

\* query.range(offset, offset + limit - 1)
Range(rows, offset, limit) ==
    SubSeq(rows, offset + 1, Min(Len(rows), offset + limit))

\* the live lookup of a stored domain
LiveAnswers(table, answers, row) ==
    answers[CHOOSE i \in 1 .. Len(table.rows) : table.rows[i].id = row.id]

filterOutRegisteredDomains(table, answers, domains) ==
    SelectSeq(domains, LAMBDA row :
        getLiveAvailability(LiveAnswers(table, answers, row)) # "registered")

\* hasMore: offset + limit < filteredCount
HasMore(offset, limit, filteredCount) == offset + limit < filteredCount

\* the JSON body of GET /api/domains
GetDomainsBody(table, answers, q) ==
    LET p == ParsedQuery(q)
        selected == Selected(table, p)
        data == Range(selected, p.offset, p.limit)
        count == Len(selected)
        live == p.availableOnly /\ p.search # <<>> /\ Len(data) > 0
        domains == IF live THEN filterOutRegisteredDomains(table, answers, data)
                   ELSE data
        filteredCount == IF live THEN Len(domains) ELSE count
    IN  [ route |-> "domains", query |-> q, error |-> FALSE,
          domains |-> domains, count |-> filteredCount,
          limit |-> p.limit, offset |-> p.offset,
          hasMore |-> HasMore(p.offset, p.limit, filteredCount) ]

\* GET: a database error is answered with status 500
GetDomains(q, dbOk) ==
    /\ responses' = Append(responses,
           IF dbOk THEN GetDomainsBody(store, world, q)
           ELSE [ route |-> "domains", query |-> q, error |-> TRUE,
                  domains |-> <<>>, count |-> 0, limit |-> q.limit,
                  offset |-> q.offset, hasMore |-> FALSE ])
    /\ UNCHANGED <<now, envVars, dateVars, probeVars, ingestVars,
                   favorites, requests, priceCache>>

\* the client asks for the first page
ClientFirstPage(q, dbOk) ==
    /\ responses = <<>>
    /\ q.offset = 0
    /\ GetDomains(q, dbOk)

\* the client raises offset by limit for as long as hasMore is true
ClientNextPage(dbOk) ==
    /\ responses # <<>>
    /\ responses[Len(responses)].hasMore
    /\ LET last == responses[Len(responses)]
       IN  GetDomains([last.query EXCEPT !.offset = last.offset + last.limit], dbOk)

\* the table after the ingest of the given feed names, one drop date each
RECURSIVE StoreOfNames(_, _, _)
StoreOfNames(z, names, t) ==
    IF names = <<>> THEN EmptyStore
    ELSE LET n == Len(names)
             parsed == Candidate(z, FeedRow(names[n], ToIsoDate(t) + n))
             domain == [ domainName |-> parsed.domainName,
                         dropDate |-> parsed.dropDate,
                         expiryDate |-> parsed.expiryDate,
                         registrar |-> parsed.registrar,
                         score |-> scoreOf(parsed.domainName) ]
         IN  UpsertRow(StoreOfNames(z, SubSeq(names, 1, n - 1), t),
                       UpsertPayload(z, domain, t), t)

PagedNames == <<AiCom, GetCloudHubCom, SolarLabsIo, LongDigitsXyz>>

Queries ==
    { [ status |-> NoParam, tld |-> tld, category |-> NoParam,
        minScore |-> minScore, maxScore |-> 100, daysMin |-> 0, daysMax |-> 100,
        limit |-> limit, offset |-> 0, sort |-> sort, order |-> order,
        search |-> search, availableOnly |-> availableOnly ] :
      tld \in {<<>>}, minScore \in {0, 50}, limit \in {1, 2}, sort \in {NoParam, "popularity"},
      order \in {"asc", "desc"}, search \in {<<>>, <<"C">>, <<"a", "i">>},
      availableOnly \in BOOLEAN }

InitPages ==
    /\ now = 24 * 200 + 12
    /\ zone = UtcZone
    /\ cfg = DefaultConfig
    /\ calc = NoCalc
    /\ probe = NoProbe
    /\ pc = "idle"
    /\ script = "none"
    /\ candidates = <<>>
    /\ index = 0
    /\ accepted = <<>>
    /\ rejected = NoCounts
    /\ consecutiveWhoisFailures = 0
    /\ saveQueue = <<>>
    /\ slept = NoSleeps
    /\ journal = <<>>
    /\ feed = <<>>
    /\ runsLeft = 0
    /\ ticksLeft = 0
    /\ written = <<>>
    /\ storeError = FALSE
    /\ history = <<>>
    /\ NoWeb
    /\ \E n \in 0 .. MaxRows :
           /\ store = StoreOfNames(zone, SubSeq(PagedNames, 1, Min(n, Len(PagedNames))),
                                   now)
           /\ world \in [1 .. Len(store.rows) -> {Available(now), Registered(now)}]

NextPages ==
    \/ \E q \in Queries, dbOk \in BOOLEAN : ClientFirstPage(q, dbOk)
    \/ \E dbOk \in BOOLEAN : ClientNextPage(dbOk)

SpecPages == InitPages /\ [][NextPages]_vars

(***************************************************************************)
(* lib/domain-prices.ts: getDomainPrice and its in-memory cache.  Prices   *)
(* are in hundredths of the currency unit, instants in hours.              *)
(***************************************************************************)

MaxCalls == 3

\* const CACHE_TTL = 60 * 60 * 1000: one hour
CACHE_TTL == 1

\* a registrar lookup that failed or found nothing
NoPrice == [registrar |-> "none"]

DomainPrice(registrar, price, currency, available) ==
    [registrar |-> registrar, price |-> price, currency |-> currency,
     available |-> available]

\* what fetchGoDaddyPrice, fetchNamecheapPrice and fetchDynadotPrice can return
GoDaddyPrices ==
    {NoPrice, DomainPrice("GoDaddy", 2499, "USD", TRUE),
     DomainPrice("GoDaddy", 999, "USD", FALSE)}
NamecheapPrices == {NoPrice, DomainPrice("Namecheap", 1098, "USD", TRUE)}
DynadotPrices == {NoPrice, DomainPrice("Dynadot", 850, "EUR", TRUE)}

\* getFallbackPrice: the price list by TLD
FallbackCents(tld) ==
    IF tld = <<"c", "o", "m">> THEN 1299
    ELSE IF tld \in {<<"n", "e", "t">>, <<"o", "r", "g">>, <<"a", "p", "p">>} THEN 1499
    ELSE IF tld = <<"i", "o">> THEN 3999
    ELSE IF tld = <<"a", "i">> THEN 7999
    ELSE IF tld = <<"c", "o">> THEN 2499
    ELSE IF tld = <<"d", "e", "v">> THEN 1299
    ELSE IF tld = <<"x", "y", "z">> THEN 199
    ELSE IF tld \in {<<"o", "n", "l", "i", "n", "e">>, <<"s", "t", "o", "r", "e">>}
    THEN 299
    ELSE 1499

getFallbackPrice(domain) ==
    LET label == ToLowerCase(SplitDot(domain, 1))
        tld == IF label = <<>> THEN <<"c", "o", "m">> ELSE label
    IN  DomainPrice("GoDaddy", FallbackCents(tld), "USD", TRUE)

\* priceCache.get(domain)
CachedPrice(cache, domain) == { entry \in cache : entry.key = domain }

\* cached && Date.now() - cached.timestamp < CACHE_TTL
IsFresh(entry, t) == t - entry.timestamp < CACHE_TTL

\* prices.reduce((min, current) => current.price < min.price ? current : min)
RECURSIVE Cheapest(_)
Cheapest(prices) ==
    IF Len(prices) = 1 THEN prices[1]
    ELSE LET min == Cheapest(SubSeq(prices, 1, Len(prices) - 1))
             current == prices[Len(prices)]
         IN  IF current.price < min.price THEN current ELSE min

\* getDomainPrice: the price returned and the cache it leaves
getDomainPrice(cache, domain, godaddyPrice, namecheapPrice, dynadotPrice, t) ==
    LET cached == CachedPrice(cache, domain)
        prices == SelectSeq(<<godaddyPrice, namecheapPrice, dynadotPrice>>,
                            LAMBDA price : price # NoPrice)
    IN  IF \E entry \in cached : IsFresh(entry, t)
        THEN LET entry == CHOOSE entry \in cached : TRUE
             IN  [ price |-> DomainPrice(entry.registrar, entry.price, "USD", TRUE),
                   cache |-> cache, hit |-> TRUE, cached |-> FALSE ]
        ELSE IF prices = <<>>
        THEN [ price |-> getFallbackPrice(domain), cache |-> cache,
               hit |-> FALSE, cached |-> FALSE ]
        ELSE LET cheapest == Cheapest(prices)
             IN  [ price |-> cheapest,
                   cache |-> (cache \ cached) \cup
                             {[ key |-> domain, price |-> cheapest.price,
                                registrar |-> cheapest.registrar, timestamp |-> t ]},
                   hit |-> FALSE, cached |-> TRUE ]

\* one call of getDomainPrice, with what the three registrars answer
GetDomainPriceCall(domain, godaddyPrice, namecheapPrice, dynadotPrice) ==
    /\ Len(responses) < MaxCalls
    /\ LET got == getDomainPrice(priceCache, domain, godaddyPrice, namecheapPrice,
                                 dynadotPrice, now)
       IN  /\ priceCache' = got.cache
           /\ responses' = Append(responses,
                  [ route |-> "price", domain |-> domain, at |-> now,
                    price |-> got.price, hit |-> got.hit, cached |-> got.cached ])
    /\ UNCHANGED <<now, envVars, dateVars, probeVars, ingestVars, favorites, requests>>

PricedDomains == {AiCom, SolarLabsIo}

InitPrice ==
    /\ now = 24 * 200 + 12
    /\ zone = UtcZone
    /\ cfg = DefaultConfig
    /\ AtRest
    /\ feed = <<>>
    /\ world = <<>>
    /\ runsLeft = 0
    /\ ticksLeft = MaxTicks + 1
    /\ NoWeb

NextPrice ==
    \/ /\ Len(responses) < MaxCalls
       /\ \E domain \in PricedDomains, godaddyPrice \in GoDaddyPrices,
             namecheapPrice \in NamecheapPrices, dynadotPrice \in DynadotPrices :
              GetDomainPriceCall(domain, godaddyPrice, namecheapPrice, dynadotPrice)
    \/ Tick

SpecPrice == InitPrice /\ [][NextPrice]_vars

(***************************************************************************)
(* Properties.                                                             *)
(***************************************************************************)

\* C6: determineStatus maps every integer daysSinceExpiry to exactly one of the
\* five statuses, with no gap and no overlap: below 0 active, 0..30 grace,
\* 31..60 redemption, 61..75 pending_delete, above 75 dropped; -1, 0, 30, 31,
\* 60, 61, 75 and 76 give active, grace, grace, redemption, redemption,
\* pending_delete, pending_delete and dropped.  Both the UTC-midnight
\* implementations and the raw-instant one are checked on their own day count.
BandOf(d, s) ==
    /\ s \in {"active", "grace", "redemption", "pending_delete", "dropped"}
    /\ (s = "active") <=> (d < 0)
    /\ (s = "grace") <=> (d \in 0 .. 30)
    /\ (s = "redemption") <=> (d \in 31 .. 60)
    /\ (s = "pending_delete") <=> (d \in 61 .. 75)
    /\ (s = "dropped") <=> (d > 75)
    /\ (d = -1) => (s = "active")
    /\ (d \in {0, 30}) => (s = "grace")
    /\ (d \in {31, 60}) => (s = "redemption")
    /\ (d \in {61, 75}) => (s = "pending_delete")
    /\ (d = 76) => (s = "dropped")

C6_StatusPartition ==
    (calc.op = "determineStatus") =>
        /\ BandOf(calc.daysSinceExpiry, calc.status)
        /\ BandOf(calc.daysSinceExpiryRaw, calc.statusRaw)

C6_Witness ==
    /\ calc.op = "determineStatus"
    /\ calc.daysSinceExpiry = 75
    /\ calc.status = "pending_delete"

\* C8: for every valid feed drop date D the candidate's expiryDate is D - 75
\* days, and the drop_date recomputed from that expiryDate is D again, on every
\* calendar date and in every process timezone.
C8_RoundTrip ==
    (calc.op = "roundTrip") =>
        /\ calc.expiryDate = calc.dropDate - 75
        /\ calc.dropAgain = calc.dropDate

\* C9: for a fixed UTC instant and a fixed drop date, the daysUntilDrop the
\* program computes is the same in every local timezone of the process, in the
\* reconciliation sweep and in the ingestion upsert.
C9_TimezoneInvariant ==
    (calc.op = "daysUntilDrop") =>
        \A z \in Zones :
            /\ calc.upsert =
                   upsertDaysUntilDrop(z, calculateExpiryFromDrop(z, calc.dropDate), now)
            /\ calc.sweep = calculateDaysUntilDrop(calc.dropDate, now)

\* C1: in the availability validator (isActuallyExpiring) a candidate whose DNS
\* lookup returns one or more records is never confirmed, for every WHOIS
\* outcome, every registrar-scrape outcome and every configured signal order.
C1_DnsVeto ==
    (probe.validator \in {"multiMethod", "scored"} /\ probe.dns = "records") =>
        ~probe.verdict.accept

\* C5: if every availability lookup made for a candidate fails or is
\* inconclusive (the DNS lookup errors, the WHOIS query throws, the scrape is
\* unknown), the candidate is rejected, in every validator of the repository.
WhoisThrew ==
    /\ probe.whois # <<>>
    /\ queryWhoisWithRetry(probe.whois,
           IF probe.validator = "lib" THEN 1 ELSE cfg.retryAttempts).threw

EveryLookupFailed ==
    CASE probe.validator = "multiMethod" -> probe.dns = "error" /\ WhoisThrew
      [] probe.validator = "scored" ->
            /\ getNamecheapStatus(probe.scrape) = "unknown"
            /\ probe.dns = "error"
            /\ WhoisThrew
      [] probe.validator = "lib" -> WhoisThrew
      [] probe.validator = "quickCheck" -> \A i \in 1 .. 3 : probe.dns[i].kind = "error"
      [] OTHER -> FALSE

C5_LookupErrorRejects == EveryLookupFailed => ~probe.verdict.accept

\* C2: every record a run wrote to the store belongs to a candidate whose score
\* total was at least the minimum score and whose validation verdict was
\* confirmed, whichever path (batch script or ingest-now route) wrote it.
C2_OnlyScoredAndValidated ==
    \A i \in 1 .. Len(written) :
        \E j \in 1 .. Len(journal) :
            /\ journal[j].domainName = written[i].row.domain_name
            /\ journal[j].total >= MIN_SCORE
            /\ journal[j].validated
            /\ journal[j].accept

\* C7: every record written by an ingestion upsert carries the status the
\* lifecycle function gives for the record's expiry date at the date of the
\* write, so that a sweep at that date would leave the status alone.
C7_StatusIsLifecycle ==
    \A i \in 1 .. Len(written) :
        /\ "expiry_date" \in DOMAIN written[i].row
        /\ written[i].row.status = determineStatus(written[i].row.expiry_date, written[i].at)

\* C10: the feed row getcloudhub.com dropping today + 3 days, with no DNS answer
\* and a WHOIS expirationDate of today - 65 days without active status, is
\* confirmed, scored at 60 or more and stored with status pending_delete and
\* days_until_drop 3.
C10_EndToEnd ==
    (pc = "idle" /\ history # <<>> /\ ~storeError) =>
        /\ Len(journal) = 1
        /\ journal[1].accept
        /\ journal[1].total >= 60
        /\ Len(store.rows) = 1
        /\ store.rows[1].status = "pending_delete"
        /\ store.rows[1].days_until_drop = 3

\* C3 as stated: two runs of the pipeline on the same feed, the same answers and
\* the same current date leave the store as one run does, one record per
\* domain_name with the same field values.
OneRowPerName(table) ==
    \A i, j \in 1 .. Len(table.rows) :
        (table.rows[i].domain_name = table.rows[j].domain_name) => (i = j)

RanTwice ==
    /\ Len(history) = 2
    /\ history[1].script = history[2].script
    /\ ~storeError

WhoisFailure(entry) == entry.validated /\ ~entry.accept /\ entry.hadWhoisError

RECURSIVE FailureRun(_)
FailureRun(entries) ==
    IF entries = <<>> THEN 0
    ELSE LET last == entries[Len(entries)]
             before == SubSeq(entries, 1, Len(entries) - 1)
         IN  IF WhoisFailure(last) THEN FailureRun(before) + 1
             ELSE IF last.validated THEN 0
             ELSE FailureRun(before)

CooldownsDue(entries, threshold) ==
    Cardinality({ k \in 1 .. Len(entries) :
                      /\ WhoisFailure(entries[k])
                      /\ FailureRun(SubSeq(entries, 1, k)) % threshold = 0 })

C11_GibberishScoresZero ==
    (calc.op = "score"
     /\ IsGibberish(ToLowerCase(SplitDot(calc.domainName, 0))))
        => /\ calc.script.total = 0
           /\ calc.engine.totalScore = 0

\* C12: every implementation of calculateDomainScore gives xqzzy123.com the
\* total 0, ai.com a total of at least 80, and a1b2c3d4e5f6g7.xyz a total
\* below MIN_SCORE (30).
C12_ReferenceNames ==
    calc.op = "score"
        => /\ calc.domainName = Xqzzy123Com
                => calc.script.total = 0 /\ calc.engine.totalScore = 0
           /\ calc.domainName = AiCom
                => calc.script.total >= 80 /\ calc.engine.totalScore >= 80
           /\ calc.domainName = LongDigitsXyz
                => calc.script.total < 30 /\ calc.engine.totalScore < 30

\* C13: a failure while validating one candidate never aborts the run: for
\* every candidate list, retry count and cooldown threshold the filter loop
\* handles the candidates in order, one outcome each, and ends only after the
\* last candidate.
C13_FailureNeverAborts ==
    /\ Len(journal) = index
    /\ index <= Len(candidates)
    /\ \A k \in 1 .. Len(journal) : journal[k].domainName = candidates[k].domainName
    /\ (script \in {"multiMethod", "scored"} /\ pc # "filtering")
           => index = Len(candidates)

\* a feed row that yields a candidate: its drop date parses and its name has
\* a character that is no whitespace
GoodRow(row) ==
    /\ row.dropDate # NoDate
    /\ \E i \in 1 .. Len(row.domainName) : row.domainName[i] \notin Whitespace

\* the position in the feed of the k-th good row
GoodIndex(k) ==
    CHOOSE i \in 1 .. Len(feed) :
        /\ GoodRow(feed[i])
        /\ Cardinality({ j \in 1 .. i : GoodRow(feed[j]) }) = k

\* name is raw without its leading and trailing whitespace, in lower case
TrimmedLowerCaseOf(name, raw) ==
    /\ name # <<>>
    /\ name[1] \notin Whitespace
    /\ name[Len(name)] \notin Whitespace
    /\ \A i \in 1 .. Len(name), u \in 1 .. Len(UpperLetters) : name[i] # UpperLetters[u]
    /\ \E a \in 0 .. Len(raw) :
           /\ a + Len(name) <= Len(raw)
           /\ \A i \in 1 .. a : raw[i] \in Whitespace
           /\ \A i \in (a + Len(name) + 1) .. Len(raw) : raw[i] \in Whitespace
           /\ \A i \in 1 .. Len(name) : ToLowerChar(raw[a + i]) = name[i]

\* C14: feed parsing drops a row whose drop date does not parse or whose
\* trimmed name is empty, and turns every other row, in feed order, into a
\* candidate whose name is the row's name trimmed and in lower case.
C14_BadRowsYieldNoCandidate ==
    script \in {"multiMethod", "scored"}
        => /\ Len(candidates)
                 = Cardinality({ i \in 1 .. Len(feed) : GoodRow(feed[i]) })
           /\ \A k \in 1 .. Len(candidates) :
                  /\ TrimmedLowerCaseOf(candidates[k].domainName,
                                        feed[GoodIndex(k)].domainName)
                  /\ candidates[k].dropDate = feed[GoodIndex(k)].dropDate

C14_Witness ==
    /\ script \in {"multiMethod", "scored"}
    /\ Len(feed) = 2
    /\ ~GoodRow(feed[1])
    /\ feed[2].domainName = PaddedGetCloudHubCom
    /\ Len(candidates) = 1
    /\ candidates[1].domainName = GetCloudHubCom

\* the rows of table before that table after has no more
Deleted(before, after) ==
    { r \in { before.rows[i] : i \in 1 .. Len(before.rows) } :
          \A j \in 1 .. Len(after.rows) : after.rows[j].id # r.id }

\* whole days from the drop date to the UTC date of instant t
DaysPastDrop(row, t) == ToIsoDate(t) - row.drop_date

\* C15: in every cleanup run, a record with status dropped is deleted once its
\* drop date is more than 30 days in the past, and no step of the sweep
\* deletes a record whose drop date is 0 to 30 days in the past.
C15_DroppedTailKept ==
    \A k \in 1 .. Len(history) :
        history[k].script = "cleanup" =>
            /\ \A r \in Deleted(history[k].before, history[k].store) :
                   ~(DaysPastDrop(r, history[k].at) \in 0 .. 30)
            /\ history[k].deleteOk =>
                   \A j \in 1 .. Len(history[k].store.rows) :
                       LET r == history[k].store.rows[j]
                       IN  r.status = "dropped" => DaysPastDrop(r, history[k].at) <= 30

\* the answer the WHOIS server gave to the last query made: the first answer
\* that is no transient error, or the answer to the last attempt allowed
FinalAnswer ==
    LET n == IF probe.validator = "lib" THEN 1 ELSE cfg.retryAttempts
        last == CHOOSE i \in 1 .. n :
                    /\ \A j \in 1 .. (i - 1) :
                           probe.whois[j].kind = "error" /\ probe.whois[j].transient
                    /\ \/ i = n
                       \/ ~(probe.whois[i].kind = "error" /\ probe.whois[i].transient)
    IN  probe.whois[last]

\* C16: in the multi-method validator, when the WHOIS query fails on every
\* attempt made, the candidate is confirmed if DNS said no records and
\* rejected if the DNS answer is unknown, and the verdict is flagged
\* hadWhoisError in both cases.
C16_WhoisFailureTrustsDns ==
    (/\ probe.validator = "multiMethod"
     /\ probe.dns \in {"norecords", "error"}
     /\ FinalAnswer.kind = "error")
        => /\ probe.verdict.hadWhoisError
           /\ ~probe.verdict.threw
           /\ probe.verdict.accept <=> (probe.dns = "norecords")

C16_Witness ==
    /\ probe.validator = "multiMethod"
    /\ probe.dns = "norecords"
    /\ cfg.retryAttempts = 2
    /\ \A i \in 1 .. 2 : probe.whois[i] = WhoisError(TRUE)
    /\ probe.verdict.accept
    /\ probe.verdict.hadWhoisError
    /\ probe.verdict.lookups = <<"dns", "whois", "whois">>

\* the consecutive-failure count the journal calls for when every validation
\* whose WHOIS query failed counts one and every other validation resets it
RECURSIVE WhoisLayerFailures(_)
WhoisLayerFailures(entries) ==
    IF entries = <<>> THEN 0
    ELSE LET last == entries[Len(entries)]
             before == SubSeq(entries, 1, Len(entries) - 1)
         IN  IF ~last.validated THEN WhoisLayerFailures(before)
             ELSE IF last.hadWhoisError THEN WhoisLayerFailures(before) + 1
             ELSE 0

\* C17: the consecutive-failure counter counts WHOIS-layer failures: every
\* validation whose WHOIS query failed after retries adds one, and only an
\* outcome without such a failure (a confirm or a clean reject) resets it to
\* zero.
C17_CounterCountsWhoisFailures ==
    consecutiveWhoisFailures = WhoisLayerFailures(journal)

\* the probe is of a validator whose earlier signals left the verdict to WHOIS
LeftToWhois ==
    \/ probe.validator = "multiMethod"
    \/ /\ probe.validator = "scored"
       /\ \/ cfg.statusSource = "whois"
          \/ probe.scrape \in {"no_marker", "http_403", "network_error"}

ReachedWhois == LeftToWhois /\ probe.dns = "norecords"

\* the expiry field names the validator of the probe knows
KnownExpiryKeys ==
    IF probe.validator = "multiMethod" THEN ExpiryKeysMultiMethod ELSE ExpiryKeysScored

\* WHOIS answered with a record that shows no sign of current registration
NoSignOfRegistration ==
    /\ FinalAnswer.kind = "data"
    /\ ~FinalAnswer.activeStatus
    /\ ~FinalAnswer.registrar
    /\ ~(FinalAnswer.hasCreation /\ (now - FinalAnswer.creation) \div 24 <= 30)

ExpiryFound == FinalAnswer.hasExpiry /\ FinalAnswer.expiryKey \in KnownExpiryKeys

\* C18: when WHOIS answers with a parseable expiry date and no sign of current
\* registration, and DNS showed no records, the verdict is confirmed exactly
\* when the expiry date is not in the future and the whole days since expiry
\* are 60 to 80; 59 days, 81 days and a future date are rejected.
C18_DropWindow ==
    (ReachedWhois /\ NoSignOfRegistration /\ ExpiryFound)
        => (probe.verdict.accept
               <=> /\ FinalAnswer.expiry <= now
                   /\ (now - FinalAnswer.expiry) \div 24 >= 60
                   /\ (now - FinalAnswer.expiry) \div 24 <= 80)

C18_Witness ==
    /\ ReachedWhois
    /\ probe.validator = "multiMethod"
    /\ NoSignOfRegistration
    /\ ExpiryFound
    /\ now - FinalAnswer.expiry = 24 * 60
    /\ probe.verdict.accept

\* C19: when WHOIS answers without a sign of current registration and no
\* expiry date can be parsed from a known field, the verdict is confirmed if
\* DNS showed no records and rejected in every other case.
C19_NoExpiryTrustsDns ==
    (LeftToWhois /\ NoSignOfRegistration /\ ~ExpiryFound)
        => (probe.verdict.accept <=> probe.dns = "norecords")

\* C20: a scrape result of unknown (no pattern matched, or the request failed,
\* for example with HTTP 403) is never a verdict and never aborts: in the
\* scrape-first order the validator goes on to the WHOIS check and the verdict
\* is the one that check produces.
C20_ScrapeUnknownDefersToWhois ==
    (/\ probe.validator = "scored"
     /\ cfg.statusSource # "whois"
     /\ probe.scrape \in {"no_marker", "http_403", "network_error"})
        => /\ ~probe.verdict.threw
           /\ Len(probe.verdict.lookups) >= 2
           /\ probe.verdict.lookups[1] = "scrape"
           /\ probe.verdict.lookups[2] = "whois"
           /\ probe.verdict.hadWhoisError <=> FinalAnswer.kind = "error"
           /\ probe.verdict.accept
                  <=> /\ NoSignOfRegistration
                      /\ ExpiryFound
                      /\ FinalAnswer.expiry <= now
                      /\ (now - FinalAnswer.expiry) \div 24 \in 60 .. 80

C20_Witness ==
    /\ probe.validator = "scored"
    /\ cfg.statusSource # "whois"
    /\ probe.scrape = "http_403"
    /\ probe.verdict.lookups = <<"scrape", "whois">>
    /\ probe.verdict.accept

\* C21: queryWhoisWithRetry makes at most WHOIS_RETRY_ATTEMPTS queries, a
\* further query only after a transient-looking error and never after another
\* error, and ends either returning the first response that is no error or
\* throwing the error of the last query made.
C21_BoundedRetry ==
    probe.validator = "queryWhois"
        => LET q == probe.verdict
           IN  /\ q.queries \in 1 .. cfg.retryAttempts
               /\ \A i \in 1 .. (q.queries - 1) :
                      probe.whois[i].kind = "error" /\ probe.whois[i].transient
               /\ q.result = probe.whois[q.queries]
               /\ q.threw <=> probe.whois[q.queries].kind = "error"
               /\ (q.threw /\ q.queries < cfg.retryAttempts)
                      => ~probe.whois[q.queries].transient

C21_Witness ==
    /\ probe.validator = "queryWhois"
    /\ cfg.retryAttempts = 2
    /\ probe.whois[1] = WhoisError(FALSE)
    /\ probe.whois[2] = WhoisEmpty
    /\ probe.verdict.threw
    /\ probe.verdict.queries = 1

\* C22: the minimum-score gate comes before validation: a candidate whose
\* score total is below the minimum score causes no DNS, WHOIS or scrape
\* lookup and is counted as a low-score reject.
C22_ScoreGateBeforeLookups ==
    /\ \A k \in 1 .. Len(journal) :
           journal[k].total < 30
               => /\ journal[k].lookups = <<>>
                  /\ ~journal[k].validated
                  /\ ~journal[k].accept
    /\ rejected.lowScore
           = Cardinality({ k \in 1 .. Len(journal) : journal[k].total < 30 })

C22_Witness ==
    /\ Len(journal) >= 2
    /\ journal[1].total < 30
    /\ journal[1].lookups = <<>>
    /\ journal[2].lookups # <<>>
    /\ rejected.lowScore = 1

\* C26: after every iteration of scoreAndFilterDomains the accepted
\* candidates, the low-score rejects and the still-registered rejects add up
\* to the candidates processed so far, and to the whole input list when the
\* function finishes.
C26_ThreeOutcomes ==
    /\ Len(accepted) + rejected.lowScore + rejected.stillRegistered = index
    /\ pc = "saving" => index = Len(candidates)
    /\ \A k \in 1 .. Len(accepted) :
           \E j \in 1 .. Len(journal) :
               journal[j].accept /\ journal[j].domainName = accepted[k].domainName

C26_Witness ==
    /\ pc = "saving"
    /\ Len(accepted) >= 1
    /\ rejected.lowScore >= 1
    /\ rejected.stillRegistered >= 1
    /\ index = Len(candidates)

\* C24: between the validations of two successive candidates the loop sleeps:
\* the request delays and cooldowns slept so far are at least one per
\* validated candidate but the last.
C24_DelayBetweenValidations ==
    slept.request + slept.cooldown + 1
        >= Cardinality({ k \in 1 .. Len(journal) : journal[k].validated })

\* C23: candidates are validated one at a time and in feed order: never are
\* the lookups of two candidates in flight together, and the validation of
\* candidate i+1 starts only after that of candidate i has finished.
C23_OneValidationAtATime ==
    probe.validator \in {"scoreAndFilterDomains", "filterExpiring"}
        => /\ Cardinality(probe.inFlight) <= 1
           /\ \A k \in 1 .. Len(probe.started) : probe.started[k] = k
           /\ \A k \in 1 .. Len(probe.finished) : probe.finished[k] = k
           /\ Len(probe.started) <= Len(probe.finished) + 1

\* the runs of cleanup.js in the history
CleanupRuns == { k \in 1 .. Len(history) : history[k].script = "cleanup" }

\* C25: after updateDomainStatuses completes with no store error, every record
\* that was not dropped when the pass started has status determineStatus(
\* expiry_date) and days_until_drop calculateDaysUntilDrop(drop_date) for the
\* current date, and a record whose recomputed values both equal the stored
\* ones is not written.
C25_StatusPassRecomputes ==
    \A k \in CleanupRuns :
        history[k].updateOk =>
            \A i \in 1 .. Len(history[k].before.rows) :
                LET old == history[k].before.rows[i]
                    new == history[k].updated.rows[i]
                    newStatus == determineStatus(old.expiry_date, history[k].at)
                    newDaysUntilDrop ==
                        calculateDaysUntilDrop(old.drop_date, history[k].at)
                IN  old.status # "dropped" =>
                        /\ new.status = newStatus
                        /\ new.days_until_drop = newDaysUntilDrop
                        /\ (old.status = newStatus
                            /\ old.days_until_drop = newDaysUntilDrop) => new = old

\* a pass that rewrote a record whose status had not changed, only its days,
\* and a later pass that left a record alone
C25_Witness ==
    /\ \E k \in CleanupRuns :
           /\ history[k].updateOk
           /\ \E i \in 1 .. Len(history[k].before.rows) :
                  /\ history[k].before.rows[i].status = "pending_delete"
                  /\ history[k].updated.rows[i].status = "pending_delete"
                  /\ history[k].updated.rows[i] # history[k].before.rows[i]
    /\ \E k \in CleanupRuns :
           /\ history[k].updateOk
           /\ \E i \in 1 .. Len(history[k].before.rows) :
                  /\ history[k].before.rows[i].status # "dropped"
                  /\ history[k].updated.rows[i] = history[k].before.rows[i]

\* C27: after a complete cleanup run with no store error every record left in
\* the store is pending_delete with days_until_drop in 0..10, or dropped with
\* a drop_date no more than 30 days in the past.
C27_OnlyWindowAndRecentDropped ==
    \A k \in CleanupRuns :
        history[k].ok =>
            \A i \in 1 .. Len(history[k].store.rows) :
                LET row == history[k].store.rows[i]
                IN  \/ /\ row.status = "pending_delete"
                       /\ row.days_until_drop \in 0 .. 10
                    \/ /\ row.status = "dropped"
                       /\ DaysPastDrop(row, history[k].at) <= 30

\* C28: for one user and one domain, after any interleaving of concurrent
\* toggle requests the favorites table holds at most one row for the pair, and
\* a toggle that runs while a favourite exists removes it.
C28_AtMostOneFavorite ==
    /\ \A userId \in FavoriteUsers, domainId \in FavoriteDomainIds :
           Cardinality(FavoriteRows(userId, domainId)) <= 1
    /\ \A r \in 1 .. Len(requests) :
           (requests[r].pc = "done" /\ requests[r].seen > 0)
               => requests[r].status = "removed"

\* the records of the table that match the query of the paging client, the
\* live availability filter included
MatchingIds(q) ==
    LET p == ParsedQuery(q)
    IN  { store.rows[i].id : i \in { j \in 1 .. Len(store.rows) :
            /\ MatchesQuery(store.rows[j], p)
            /\ (p.availableOnly /\ p.search # <<>>)
                   => getLiveAvailability(world[j]) # "registered" } }

ReceivedIds ==
    UNION { { responses[k].domains[i].id : i \in 1 .. Len(responses[k].domains) } :
            k \in 1 .. Len(responses) }

PagingEnded ==
    /\ responses # <<>>
    /\ \A k \in 1 .. Len(responses) :
           responses[k].route = "domains" /\ ~responses[k].error
    /\ ~responses[Len(responses)].hasMore

\* C29: a client that pages through GET /api/domains by raising offset by
\* limit while hasMore is true receives every record that matches the filters,
\* also with a search term and the live availability filter.
C29_PagingReceivesAll ==
    PagingEnded => MatchingIds(responses[1].query) \subseteq ReceivedIds

\* the call that populated the cache entry a later call of the same domain
\* was served from: the last caching call before it
Populating(k) ==
    LET earlier == { j \in 1 .. k - 1 : /\ responses[j].route = "price"
                                        /\ responses[j].domain = responses[k].domain
                                        /\ responses[j].cached }
    IN  IF earlier = {} THEN 0 ELSE CHOOSE j \in earlier : \A i \in earlier : i <= j

CacheHits == { k \in 1 .. Len(responses) : responses[k].route = "price"
                                             /\ responses[k].hit }

\* C30: a getDomainPrice call served from the cache returns the registrar,
\* price, currency and availability of the call that populated the entry, and
\* an entry whose age has reached the TTL is never served.
C30_CacheTransparent ==
    \A k \in CacheHits :
        /\ Populating(k) # 0
        /\ responses[k].price = responses[Populating(k)].price
        /\ responses[k].at - responses[Populating(k)].at < CACHE_TTL

\* a cache hit is younger than the TTL
ExpiredNeverServed ==
    \A k \in CacheHits :
        /\ Populating(k) # 0
        /\ responses[k].at - responses[Populating(k)].at < CACHE_TTL


====
